---- MODULE Spec2Model ----
(***************************************************************************)
(* A model of bevy_decl_egui: the schema decoders of src/model.rs over the *)
(* token tree of a parsed text tape, and the binding resolver of           *)
(* src/reader/binding.rs over a reflective data object.                    *)
(***************************************************************************)
EXTENDS Integers, Sequences, FiniteSets, TLC

VARIABLES
    data,       \* the reflective data object handed to the resolver
    bindings,   \* the BindingRef instances of the document: name, T, warned
    log,        \* per binding, how many warnings have been logged about it
    fails,      \* per binding, how many resolve calls on it have failed
    calls,      \* the number of resolver calls made so far
    last,       \* the last resolver call: operation, binding, data seen, result
    target,     \* the decoder a parse is run with
    input,      \* the token tree handed to the decoder
    result,     \* what the decoder returned
    pc,         \* "ready" before the decoder has run, "done" after
    doc,        \* the content of the window a render pass shows
    todo,       \* the widgets the pass has still to show, in document order
    trace,      \* what the pass has done so far, step by step
    commands,   \* the commands registered with an EguiWidgetBuilder, per id
    phase,      \* where a render pass stands
    threads     \* per thread, where its resolve call stands

vars == <<data, bindings, log, fails, calls, last, target, input, result, pc,
          doc, todo, trace, commands, phase, threads>>

bindVars == <<data, bindings, log, fails, calls, last>>
parseVars == <<target, input, result, pc>>
passVars == <<doc, todo, trace, commands, phase>>

(***************************************************************************)
(* Bounds                                                                  *)
(***************************************************************************)
MaxCalls == 3

(***************************************************************************)
(* The data object: a struct with named, typed fields, or a value that is  *)
(* no struct.  A field of type "none" is a field the struct does not have. *)
(***************************************************************************)
FieldNames == {"flag", "clicked"}

NoField == [ty |-> "none", val |-> 0]

FlagValues ==
    {NoField, [ty |-> "bool", val |-> 0], [ty |-> "bool", val |-> 1],
     [ty |-> "Trigger", val |-> 0], [ty |-> "List", val |-> 0]}

ClickedValues == {NoField, [ty |-> "Trigger", val |-> 0], [ty |-> "bool", val |-> 0]}

NotAStruct == [isStruct |-> FALSE, fields |-> [n \in FieldNames |-> NoField]]

\* The data objects the host hands to the resolver.
DataObjects ==
    {NotAStruct} \cup
    {[isStruct |-> TRUE, fields |-> [flag |-> f, clicked |-> c]] :
        f \in FlagValues, c \in ClickedValues}

\* The BindingRef instances of the document: `visible = @flag` of a widget,
\* and the two triggers of its response, `clicked = @clicked`, `hovered = @flag`.
BindingDecls ==
    << [name |-> "flag",    ty |-> "bool",    warned |-> FALSE],
       [name |-> "clicked", ty |-> "Trigger", warned |-> FALSE],
       [name |-> "flag",    ty |-> "Trigger", warned |-> FALSE] >>

BindingIds == DOMAIN BindingDecls

\* The Response of that widget: Clicked(@clicked), Hovered(@flag).
ResponseProps == << [ev |-> "clicked", b |-> 2], [ev |-> "hovered", b |-> 3] >>

ResponseEvents == {"clicked", "hovered"}

(***************************************************************************)
(* Results of a resolve call                                               *)
(***************************************************************************)
ROk(name, v) == [kind |-> "Ok", err |-> "", field |-> name, val |-> v]
RErr(msg) == [kind |-> "Err", err |-> msg, field |-> "", val |-> NoField]
RPanic(what) == [kind |-> "Panic", err |-> what, field |-> "", val |-> NoField]

\* Mutant: a missing field falls back to the struct's first field.
Struct_fieldOrFirst(d, name) ==
    IF name \in DOMAIN d.fields /\ d.fields[name].ty # "none"
    THEN <<d.fields[name]>>
    ELSE IF d.fields["clicked"].ty # "none" THEN <<d.fields["clicked"]>> ELSE <<>>

\* bevy's Struct::field: the field of that name, if the struct has one.
Struct_field(d, name) ==
    IF name \in DOMAIN d.fields /\ d.fields[name].ty # "none"
    THEN <<d.fields[name]>>
    ELSE <<>>

\* Mutant: a failure once warned about is answered from the flag.
ResolveRefCheckCached(b, d) ==
    IF b.warned \/ ~d.isStruct \/ Struct_field(d, b.name) = <<>> THEN RErr("key not found")
    ELSE IF Struct_field(d, b.name)[1].ty # b.ty THEN RErr("expected type")
    ELSE ROk(b.name, Struct_field(d, b.name)[1])

\* The closure of resolve_ref: struct, field of that name, down-cast to T.
ResolveRefCheck(b, d) ==
    IF ~d.isStruct THEN RErr("expected struct")
    ELSE LET f == Struct_field(d, b.name) IN
         IF f = <<>> THEN RErr("key not found")
         ELSE IF f[1].ty # b.ty THEN RErr("expected type")
         ELSE ROk(b.name, f[1])

\* The closure of resolve_list_ref: struct, field of that name, a list.
ResolveListRefCheck(b, d) ==
    IF ~d.isStruct THEN RErr("expected struct")
    ELSE LET f == Struct_field(d, b.name) IN
         IF f = <<>> THEN RErr("key not found")
         ELSE IF f[1].ty # "List" THEN RErr("expected list")
         ELSE ROk(b.name, f[1])

\* Mutant: the flag is loaded, and never set.
FetchOrWarnedLoad(old) == old

\* warned.fetch_or(true): the flag afterwards.
FetchOrWarned(old) == TRUE

\* Mutant: the result of fetch_or is ignored.
LogsWarningAlways(old) == TRUE

\* Whether the map_err closure logs: only when fetch_or returned false.
LogsWarning(old) == ~old

\* map_err of both read paths on a world w = [data, bindings, log, fails, panic].
MapErr(w, i, r) ==
    IF r.kind # "Err" THEN w
    ELSE [w EXCEPT
            !.bindings[i].warned = FetchOrWarned(w.bindings[i].warned),
            !.log[i] = IF LogsWarning(w.bindings[i].warned) THEN @ + 1 ELSE @,
            !.fails[i] = @ + 1]

BindingRef_resolve_ref(w, i) ==
    LET r == ResolveRefCheck(w.bindings[i], w.data)
    IN  [w |-> MapErr(w, i, r), r |-> r]

BindingRef_resolve_list_ref(w, i) ==
    LET r == ResolveListRefCheck(w.bindings[i], w.data)
    IN  [w |-> MapErr(w, i, r), r |-> r]

(***************************************************************************)
(* Binding<T>: a reference to a field of the data object, or a literal.    *)
(***************************************************************************)
Binding_Ref(i) == [tag |-> "Ref", ref |-> i, value |-> NoField]
Binding_Value(v) == [tag |-> "Value", ref |-> 0, value |-> v]

NoBinding == [tag |-> "none", ref |-> 0, value |-> NoField]

\* The literals of the document: `visible = yes`, `visible = no`, `width = 5`.
LiteralValues ==
    {[ty |-> "bool", val |-> 0], [ty |-> "bool", val |-> 1], [ty |-> "f32", val |-> 5]}

\* The Binding<T> instances of the document.
Bindings == {Binding_Value(v) : v \in LiteralValues} \cup {Binding_Ref(1)}

\* A literal resolved as if it were a reference to the field `flag`.
Binding_resolve_refThroughData(w, bnd) == BindingRef_resolve_ref(w, 1)

Binding_resolve_ref(w, bnd) ==
    IF bnd.tag = "Ref"
    THEN BindingRef_resolve_ref(w, bnd.ref)
    ELSE [w |-> w, r |-> ROk("", bnd.value)]

\* resolve_ref(data).copied(): the value behind the reference.
Binding_resolve(w, bnd) == Binding_resolve_ref(w, bnd)

\* reflect_mut, field_mut and downcast_mut after the read path has passed.
FieldMutHandle(b, d) ==
    IF ~d.isStruct THEN RPanic("unreachable")
    ELSE LET f == Struct_field(d, b.name) IN
         IF f = <<>> THEN RPanic("unwrap")
         ELSE IF f[1].ty # b.ty THEN RPanic("unwrap")
         ELSE ROk(b.name, f[1])

ListMutHandle(b, d) ==
    IF ~d.isStruct THEN RPanic("unreachable")
    ELSE LET f == Struct_field(d, b.name) IN
         IF f = <<>> THEN RPanic("unwrap")
         ELSE IF f[1].ty # "List" THEN RPanic("unreachable")
         ELSE ROk(b.name, f[1])

\* Mutant: the mutable path skips the read-path check.
ResolveMutUnchecked(w, i) == [w |-> w, r |-> FieldMutHandle(w.bindings[i], w.data)]

BindingRef_resolve_mut(w, i) ==
    LET c == BindingRef_resolve_ref(w, i)
    IN  IF c.r.kind = "Err" THEN c
        ELSE [w |-> c.w, r |-> FieldMutHandle(c.w.bindings[i], c.w.data)]

BindingRef_resolve_list_mut(w, i) ==
    LET c == BindingRef_resolve_list_ref(w, i)
    IN  IF c.r.kind = "Err" THEN c
        ELSE [w |-> c.w, r |-> ListMutHandle(c.w.bindings[i], c.w.data)]

\* Trigger::trigger through the mutable handle: the field is set.
Trigger_trigger(w, name) == [w EXCEPT !.data.fields[name].val = 1]

\* Mutant: the trigger is written whether or not the binding resolved.
ProcessPropAlways(w, p, events) ==
    LET c == BindingRef_resolve_mut(w, p.b)
    IN  IF p.ev \in events THEN Trigger_trigger(c.w, c.w.bindings[p.b].name) ELSE c.w

\* One arm of Response::process: resolve_mut, and trigger if the event happened.
\* A panic inside resolve_mut unwinds through process.
ProcessProp(w, p, events) ==
    IF w.panic THEN w
    ELSE LET c == BindingRef_resolve_mut(w, p.b)
         IN  IF c.r.kind = "Panic" THEN [c.w EXCEPT !.panic = TRUE]
             ELSE IF c.r.kind = "Ok" /\ p.ev \in events
                  THEN Trigger_trigger(c.w, c.r.field)
                  ELSE c.w

RECURSIVE ProcessFrom(_, _, _)
ProcessFrom(w, k, events) ==
    IF k > Len(ResponseProps) THEN w
    ELSE ProcessFrom(ProcessProp(w, ResponseProps[k], events), k + 1, events)

\* Response::process: every response property in document order.
Response_process(w, events) ==
    LET w2 == ProcessFrom(w, 1, events)
    IN  [w |-> w2, r |-> IF w2.panic THEN RPanic("process") ELSE ROk("", NoField)]

(***************************************************************************)
(* The resolver as a state machine                                         *)
(***************************************************************************)
World ==
    [data |-> data, bindings |-> bindings, log |-> log, fails |-> fails, panic |-> FALSE]

NoCall == [op |-> "none", b |-> 0, bnd |-> NoBinding, seen |-> NotAStruct, r |-> RErr("")]

ParseIdle ==
    /\ target = "none"
    /\ input = <<>>
    /\ result = <<>>
    /\ pc = "idle"

\* No render pass is under way.
PassIdle ==
    /\ doc = <<>>
    /\ todo = <<>>
    /\ trace = <<>>
    /\ commands = <<>>
    /\ phase = "idle"

\* No thread is inside a resolve call.
ThreadsIdle == threads = <<>>

InitBind ==
    /\ data \in DataObjects
    /\ bindings = BindingDecls
    /\ log = [i \in BindingIds |-> 0]
    /\ fails = [i \in BindingIds |-> 0]
    /\ calls = 0
    /\ last = NoCall
    /\ ParseIdle
    /\ PassIdle
    /\ ThreadsIdle

Commit(op, i, c) ==
    /\ data' = c.w.data
    /\ bindings' = c.w.bindings
    /\ log' = c.w.log
    /\ fails' = c.w.fails
    /\ calls' = calls + 1
    /\ last' = [op |-> op, b |-> i, bnd |-> NoBinding, seen |-> data, r |-> c.r]
    /\ UNCHANGED parseVars
    /\ UNCHANGED <<passVars, threads>>

CommitBinding(op, bnd, c) ==
    /\ data' = c.w.data
    /\ bindings' = c.w.bindings
    /\ log' = c.w.log
    /\ fails' = c.w.fails
    /\ calls' = calls + 1
    /\ last' = [op |-> op, b |-> bnd.ref, bnd |-> bnd, seen |-> data, r |-> c.r]
    /\ UNCHANGED parseVars
    /\ UNCHANGED <<passVars, threads>>

ResolveRef(i) ==
    /\ calls < MaxCalls
    /\ Commit("resolve_ref", i, BindingRef_resolve_ref(World, i))

ResolveMut(i) ==
    /\ calls < MaxCalls
    /\ Commit("resolve_mut", i, BindingRef_resolve_mut(World, i))

ResolveListRef(i) ==
    /\ calls < MaxCalls
    /\ Commit("resolve_list_ref", i, BindingRef_resolve_list_ref(World, i))

ResolveListMut(i) ==
    /\ calls < MaxCalls
    /\ Commit("resolve_list_mut", i, BindingRef_resolve_list_mut(World, i))

BindingResolveRef(bnd) ==
    /\ calls < MaxCalls
    /\ CommitBinding("binding_resolve_ref", bnd, Binding_resolve_ref(World, bnd))

BindingResolve(bnd) ==
    /\ calls < MaxCalls
    /\ CommitBinding("binding_resolve", bnd, Binding_resolve(World, bnd))

Process(events) ==
    /\ calls < MaxCalls
    /\ Commit("process", 0, Response_process(World, events))

\* The host owns the data object: between calls it may hand over any other
\* one.  A result borrows the data object, so it is gone by then.
HostSetData ==
    /\ \E d \in DataObjects : d # data /\ data' = d
    /\ last' = NoCall
    /\ UNCHANGED <<bindings, log, fails, calls>>
    /\ UNCHANGED parseVars
    /\ UNCHANGED <<passVars, threads>>

NextBind ==
    \/ \E i \in BindingIds : ResolveRef(i)
    \/ \E i \in BindingIds : ResolveMut(i)
    \/ \E i \in BindingIds : ResolveListRef(i)
    \/ \E i \in BindingIds : ResolveListMut(i)
    \/ \E bnd \in Bindings : BindingResolveRef(bnd)
    \/ \E bnd \in Bindings : BindingResolve(bnd)
    \/ \E events \in SUBSET ResponseEvents : Process(events)
    \/ HostSetData

SpecBind == InitBind /\ [][NextBind]_vars

(***************************************************************************)
(* The token tree of a parsed tape.  A scalar carries its text as a        *)
(* sequence of characters; a container carries its keyed fields, each with *)
(* the operator written between key and value ("" for a plain `=`), and    *)
(* the un-keyed values: the elements of an array, or what trails the keyed *)
(* fields of an object.                                                    *)
(***************************************************************************)
Unquoted(s) == [t |-> "Unquoted", s |-> s, fields |-> <<>>, rest |-> <<>>]
Quoted(s) == [t |-> "Quoted", s |-> s, fields |-> <<>>, rest |-> <<>>]
Object(fs, rest) == [t |-> "Object", s |-> <<>>, fields |-> fs, rest |-> rest]
Array(elems) == [t |-> "Array", s |-> <<>>, fields |-> <<>>, rest |-> elems]
Field(key, v) == [key |-> key, op |-> "", value |-> v]
FieldOp(key, op, v) == [key |-> key, op |-> op, value |-> v]

\* Reader::new: a node of the tape and the path that leads to it.
Reader(v, path) == [v |-> v, path |-> path]

POk(val) == [kind |-> "Ok", variant |-> "", a |-> <<>>, b |-> <<>>, at |-> <<>>, val |-> val]
PErr(variant, a, b, at) ==
    [kind |-> "Err", variant |-> variant, a |-> a, b |-> b, at |-> at, val |-> <<>>]
PPanic(what) ==
    [kind |-> "Panic", variant |-> what, a |-> <<>>, b |-> <<>>, at |-> <<>>, val |-> <<>>]

IsOk(x) == x.kind = "Ok"

\* The `?` operator: the error (or panic) of x ends the function, its value goes on.
Try(x, Then(_)) == IF IsOk(x) THEN Then(x.val) ELSE x

\* Reader::token_type
token_type(r) ==
    CASE r.v.t = "Array" -> "array"
      [] r.v.t = "Object" -> "object"
      [] r.v.t = "Unquoted" -> "unquoted scalar"
      [] r.v.t = "Quoted" -> "quoted scalar"

\* Reader::is_scalar
is_scalar(r) == r.v.t \in {"Quoted", "Unquoted"}

\* Reader::read_scalar
read_scalar(r) ==
    IF r.v.t \in {"Quoted", "Unquoted"} THEN POk(r.v.s)
    ELSE PErr("InvalidType", token_type(r), <<"scalar">>, r.path)

RECURSIVE FirstOperator(_, _)
FirstOperator(fs, k) ==
    IF k > Len(fs) THEN ""
    ELSE IF fs[k].op # "" THEN fs[k].op
    ELSE FirstOperator(fs, k + 1)

\* The (key, child reader) pairs of a container, in document order.
ObjectPairs(r) ==
    [k \in DOMAIN r.v.fields |->
        [key |-> r.v.fields[k].key,
         value |-> Reader(r.v.fields[k].value, Append(r.path, r.v.fields[k].key))]]

\* remainder.read_str(), or the empty string
RemainderText(v) == IF v.t \in {"Quoted", "Unquoted"} THEN v.s ELSE <<>>

\* read_object looking for trailing values before it looks for operators.
read_objectRemainderFirst(r) ==
    IF r.v.t \notin {"Object", "Array"}
    THEN PErr("InvalidType", token_type(r), <<"object">>, r.path)
    ELSE IF Len(r.v.rest) > 0
    THEN PErr("UnexpectedRemainder", RemainderText(r.v.rest[1]), <<>>, r.path)
    ELSE IF FirstOperator(r.v.fields, 1) # ""
    THEN PErr("UnexpectedOperator", FirstOperator(r.v.fields, 1), <<>>, r.path)
    ELSE POk(ObjectPairs(r))

\* Reader::read_object: the (key, child reader) pairs of a container.  Of the
\* arrays, ValueReader::read_object takes the empty one only.
read_object(r) ==
    IF r.v.t \notin {"Object", "Array"}
    THEN PErr("InvalidType", token_type(r), <<"object">>, r.path)
    ELSE IF r.v.t = "Array" /\ Len(r.v.rest) > 0
    THEN PErr("DeserializeError", <<"not an object">>, <<>>, r.path)
    ELSE IF FirstOperator(r.v.fields, 1) # ""
    THEN PErr("UnexpectedOperator", FirstOperator(r.v.fields, 1), <<>>, r.path)
    ELSE IF Len(r.v.rest) > 0
    THEN PErr("UnexpectedRemainder", RemainderText(r.v.rest[1]), <<>>, r.path)
    ELSE POk(ObjectPairs(r))

IndexString == <<"0", "1", "2", "3", "4", "5", "6", "7">>

\* Reader::read_array: the positional children of a container.
read_array(r) ==
    IF r.v.t \notin {"Object", "Array"}
    THEN PErr("InvalidType", token_type(r), <<"array">>, r.path)
    ELSE POk([k \in DOMAIN r.v.rest |->
                Reader(r.v.rest[k], Append(r.path, IndexString[k]))])

(***************************************************************************)
(* Scalars                                                                 *)
(***************************************************************************)
DigitValue ==
    [c \in {"0", "1", "2", "3", "4", "5", "6", "7", "8", "9"} |->
        CASE c = "0" -> 0 [] c = "1" -> 1 [] c = "2" -> 2 [] c = "3" -> 3 [] c = "4" -> 4
          [] c = "5" -> 5 [] c = "6" -> 6 [] c = "7" -> 7 [] c = "8" -> 8 [] c = "9" -> 9]

IsDigits(s) == Len(s) > 0 /\ \A k \in DOMAIN s : s[k] \in DOMAIN DigitValue

RECURSIVE DigitsValue(_, _)
DigitsValue(s, acc) ==
    IF s = <<>> THEN acc ELSE DigitsValue(Tail(s), 10 * acc + DigitValue[Head(s)])

(***************************************************************************)
(* Integers of 64 bits, kept as decimal numerals: a sign and the digits of *)
(* the magnitude without leading zeros.                                    *)
(***************************************************************************)
RECURSIVE Canon(_)
Canon(d) == IF Len(d) > 1 /\ Head(d) = "0" THEN Canon(Tail(d)) ELSE d

Integer(neg, digits) ==
    LET mag == Canon(digits) IN [neg |-> neg /\ mag # <<"0">>, mag |-> mag]

\* The text is a numeral: digits, or `-` and digits.
IsNumeral(s) == IsDigits(s) \/ (Len(s) > 1 /\ Head(s) = "-" /\ IsDigits(Tail(s)))

\* The integer a numeral stands for.
Numeral(s) == IF Head(s) = "-" THEN Integer(TRUE, Tail(s)) ELSE Integer(FALSE, s)

\* format!("{}", v)
Format(v) == IF v.neg THEN <<"-">> \o v.mag ELSE v.mag

\* a <= b on magnitudes
DecLeq(a, b) ==
    \/ Len(a) < Len(b)
    \/ /\ Len(a) = Len(b)
       /\ \/ a = b
          \/ \E k \in DOMAIN a :
                /\ \A j \in 1..(k - 1) : a[j] = b[j]
                /\ DigitValue[a[k]] < DigitValue[b[k]]

\* x <= y
IntLeq(x, y) ==
    CASE x.neg /\ ~y.neg -> TRUE
      [] ~x.neg /\ y.neg -> FALSE
      [] ~x.neg /\ ~y.neg -> DecLeq(x.mag, y.mag)
      [] x.neg /\ y.neg -> DecLeq(y.mag, x.mag)

\* T::MIN and T::MAX
IntMin(T) ==
    CASE T \in {"u8", "u16", "u32", "u64"} -> Numeral(<<"0">>)
      [] T = "i8" -> Numeral(<<"-", "1", "2", "8">>)
      [] T = "i16" -> Numeral(<<"-", "3", "2", "7", "6", "8">>)
      [] T = "i32" -> Numeral(<<"-", "2", "1", "4", "7", "4", "8", "3", "6", "4", "8">>)
      [] T = "i64" -> Numeral(<<"-", "9", "2", "2", "3", "3", "7", "2", "0", "3", "6", "8", "5", "4", "7", "7", "5", "8", "0", "8">>)

IntMax(T) ==
    CASE T = "u8" -> Numeral(<<"2", "5", "5">>)
      [] T = "i8" -> Numeral(<<"1", "2", "7">>)
      [] T = "u16" -> Numeral(<<"6", "5", "5", "3", "5">>)
      [] T = "i16" -> Numeral(<<"3", "2", "7", "6", "7">>)
      [] T = "u32" -> Numeral(<<"4", "2", "9", "4", "9", "6", "7", "2", "9", "5">>)
      [] T = "i32" -> Numeral(<<"2", "1", "4", "7", "4", "8", "3", "6", "4", "7">>)
      [] T = "u64" -> Numeral(<<"1", "8", "4", "4", "6", "7", "4", "4", "0", "7", "3", "7", "0", "9", "5", "5", "1", "6", "1", "5">>)
      [] T = "i64" -> Numeral(<<"9", "2", "2", "3", "3", "7", "2", "0", "3", "6", "8", "5", "4", "7", "7", "5", "8", "0", "7">>)

InRange(v, T) == IntLeq(IntMin(T), v) /\ IntLeq(v, IntMax(T))

\* Scalar::to_u64
to_u64(s) ==
    IF IsDigits(s) /\ InRange(Numeral(s), "u64") THEN POk(Numeral(s))
    ELSE PErr("ScalarError", s, <<>>, <<>>)

\* Scalar::to_i64
to_i64(s) ==
    IF IsNumeral(s) /\ InRange(Numeral(s), "i64") THEN POk(Numeral(s))
    ELSE PErr("ScalarError", s, <<>>, <<>>)

\* Scalar::to_f64, on the whole numbers
to_f64(s) ==
    IF IsDigits(s) THEN POk(DigitsValue(s, 0))
    ELSE IF Len(s) > 1 /\ Head(s) = "-" /\ IsDigits(Tail(s)) THEN POk(0 - DigitsValue(Tail(s), 0))
    ELSE PErr("ScalarError", s, <<>>, <<>>)

\* Scalar::to_bool
to_bool(s) ==
    IF s = <<"y", "e", "s">> THEN POk(TRUE)
    ELSE IF s = <<"n", "o">> THEN POk(FALSE)
    ELSE PErr("ScalarError", s, <<>>, <<>>)

\* Error::scalar_error: the scalar's error at the reader's path.
scalar_error(r, e) == [e EXCEPT !.at = r.path]

\* impl ReadUiconf for String
RECURSIVE Reader_read(_, _)

String_read_uiconf(r) == read_scalar(r)

\* impl ReadUiconf for bool
bool_read_uiconf(r) ==
    LET s == read_scalar(r) IN
    IF ~IsOk(s) THEN s
    ELSE LET v == to_bool(s.val) IN IF IsOk(v) THEN v ELSE scalar_error(r, v)

\* impl ReadUiconf for f32
f32_read_uiconf(r) ==
    LET s == read_scalar(r) IN
    IF ~IsOk(s) THEN s
    ELSE LET v == to_f64(s.val) IN IF IsOk(v) THEN v ELSE scalar_error(r, v)

\* map_err(|err| Error::scalar_error(value, err))
map_scalar_error(x, r) == IF x.kind = "Err" THEN scalar_error(r, x) ELSE x

\* v.try_into().map_err(|_| Error::invalid_value(value, &format!("{}", v), T))
try_into(T, v, r) ==
    IF InRange(v, T) THEN POk(v) ELSE PErr("InvalidValue", Format(v), <<T>>, r.path)

\* impl ReadUiconf for u8
u8_read_uiconf(r) ==
    Try(read_scalar(r), LAMBDA s :
        Try(map_scalar_error(to_u64(s), r), LAMBDA v : try_into("u8", v, r)))

\* impl ReadUiconf for i8
i8_read_uiconf(r) ==
    Try(read_scalar(r), LAMBDA s :
        Try(map_scalar_error(to_i64(s), r), LAMBDA v : try_into("i8", v, r)))

\* impl ReadUiconf for u16
u16_read_uiconf(r) ==
    Try(read_scalar(r), LAMBDA s :
        Try(map_scalar_error(to_u64(s), r), LAMBDA v : try_into("u16", v, r)))

\* impl ReadUiconf for i16
i16_read_uiconf(r) ==
    Try(read_scalar(r), LAMBDA s :
        Try(map_scalar_error(to_i64(s), r), LAMBDA v : try_into("i16", v, r)))

\* impl ReadUiconf for u32
u32_read_uiconf(r) ==
    Try(read_scalar(r), LAMBDA s :
        Try(map_scalar_error(to_u64(s), r), LAMBDA v : try_into("u32", v, r)))

\* impl ReadUiconf for i32
i32_read_uiconf(r) ==
    Try(read_scalar(r), LAMBDA s :
        Try(map_scalar_error(to_i64(s), r), LAMBDA v : try_into("i32", v, r)))

\* impl ReadUiconf for u64
u64_read_uiconf(r) == Try(read_scalar(r), LAMBDA s : map_scalar_error(to_u64(s), r))

\* impl ReadUiconf for i64
i64_read_uiconf(r) == Try(read_scalar(r), LAMBDA s : map_scalar_error(to_i64(s), r))

(***************************************************************************)
(* Bindings                                                                *)
(***************************************************************************)
\* impl ReadUiconf for BindingRef<T>
BindingRef_read_uiconf(r) ==
    IF r.v.t # "Unquoted"
    THEN PErr("InvalidType", token_type(r), <<"unquoted scalar">>, r.path)
    ELSE IF Len(r.v.s) > 0 /\ Head(r.v.s) = "@"
    THEN POk([b |-> "Ref", name |-> Tail(r.v.s), warned |-> FALSE])
    ELSE PErr("InvalidValue", r.v.s, <<"@ref">>, r.path)

\* impl ReadUiconf for Binding<T>, T's decoder being T_read_uiconf
Binding_read_uiconf(T, r) ==
    LET ref == Reader_read("BindingRef", r) IN
    IF IsOk(ref) THEN ref
    ELSE LET v == Reader_read(T, r) IN
         IF IsOk(v) THEN POk([b |-> "Value", v |-> v.val]) ELSE v

(***************************************************************************)
(* Enumerations: strum's EnumString over snake_case names                  *)
(***************************************************************************)
Alignment_VARIANTS == <<<<"c", "e", "n", "t", "e", "r">>, <<"l", "e", "f", "t">>, <<"r", "i", "g", "h", "t">>, <<"t", "o", "p">>, <<"b", "o", "t", "t", "o", "m">>>>

Direction_VARIANTS == <<<<"l", "e", "f", "t", "_", "t", "o", "_", "r", "i", "g", "h", "t">>, <<"r", "i", "g", "h", "t", "_", "t", "o", "_", "l", "e", "f", "t">>, <<"t", "o", "p", "_", "d", "o", "w", "n">>, <<"b", "o", "t", "t", "o", "m", "_", "u", "p">>>>

Align_VARIANTS == <<<<"m", "i", "n">>, <<"c", "e", "n", "t", "e", "r">>, <<"m", "a", "x">>>>

RichTextStyle_VARIANTS == << <<"s", "m", "a", "l", "l">>,
       <<"b", "o", "d", "y">>,
       <<"m", "o", "n", "o", "s", "p", "a", "c", "e">>,
       <<"b", "u", "t", "t", "o", "n">>,
       <<"h", "e", "a", "d", "i", "n", "g">>,
       <<"c", "o", "d", "e">>,
       <<"s", "t", "r", "o", "n", "g">>,
       <<"w", "e", "a", "k">>,
       <<"s", "t", "r", "i", "k", "e", "t", "h", "r", "o", "u", "g", "h">>,
       <<"u", "n", "d", "e", "r", "l", "i", "n", "e">>,
       <<"i", "t", "a", "l", "i", "c", "s">>,
       <<"r", "a", "i", "s", "e", "d">> >>

ColorName_VARIANTS ==
    << <<"t", "r", "a", "n", "s", "p", "a", "r", "e", "n", "t">>,
       <<"b", "l", "a", "c", "k">>,
       <<"d", "a", "r", "k", "_", "g", "r", "a", "y">>,
       <<"g", "r", "a", "y">>,
       <<"l", "i", "g", "h", "t", "_", "g", "r", "a", "y">>,
       <<"w", "h", "i", "t", "e">>,
       <<"b", "r", "o", "w", "n">>,
       <<"d", "a", "r", "k", "_", "r", "e", "d">>,
       <<"r", "e", "d">>,
       <<"l", "i", "g", "h", "t", "_", "r", "e", "d">>,
       <<"y", "e", "l", "l", "o", "w">>,
       <<"l", "i", "g", "h", "t", "_", "y", "e", "l", "l", "o", "w">>,
       <<"k", "h", "a", "k", "i">>,
       <<"d", "a", "r", "k", "_", "g", "r", "e", "e", "n">>,
       <<"g", "r", "e", "e", "n">>,
       <<"l", "i", "g", "h", "t", "_", "g", "r", "e", "e", "n">>,
       <<"d", "a", "r", "k", "_", "b", "l", "u", "e">>,
       <<"b", "l", "u", "e">>,
       <<"l", "i", "g", "h", "t", "_", "b", "l", "u", "e">>,
       <<"g", "o", "l", "d">>,
       <<"d", "e", "b", "u", "g", "_", "c", "o", "l", "o", "r">>,
       <<"t", "e", "m", "p", "o", "r", "a", "r", "y", "_", "c", "o", "l", "o", "r">> >>

SenseKind_VARIANTS == << <<"h", "o", "v", "e", "r">>,
       <<"f", "o", "c", "u", "s", "a", "b", "l", "e", "_", "n", "o", "n", "i", "n", "t", "e", "r", "a", "c", "t", "i", "v", "e">>,
       <<"c", "l", "i", "c", "k">>,
       <<"d", "r", "a", "g">>,
       <<"c", "l", "i", "c", "k", "_", "a", "n", "d", "_", "d", "r", "a", "g">> >>

SenseType_VARIANTS == <<<<"c", "l", "i", "c", "k">>, <<"d", "r", "a", "g">>, <<"f", "o", "c", "u", "s", "a", "b", "l", "e">>>>

InSeq(x, seq) == \E k \in DOMAIN seq : seq[k] = x

\* from_str and the map_err of every enumeration's read_uiconf
Enum_read_uiconf(VARIANTS, r) ==
    LET name == read_scalar(r) IN
    IF ~IsOk(name) THEN name
    ELSE IF InSeq(name.val, VARIANTS) THEN POk(name.val)
    ELSE PErr("UnknownVariant", name.val, VARIANTS, r.path)

Alignment_read_uiconf(r) == Enum_read_uiconf(Alignment_VARIANTS, r)
Direction_read_uiconf(r) == Enum_read_uiconf(Direction_VARIANTS, r)
Align_read_uiconf(r) == Enum_read_uiconf(Align_VARIANTS, r)
RichTextStyle_read_uiconf(r) == Enum_read_uiconf(RichTextStyle_VARIANTS, r)
ColorName_read_uiconf(r) == Enum_read_uiconf(ColorName_VARIANTS, r)

(***************************************************************************)
(* Composite values                                                        *)
(***************************************************************************)
W_center == <<"c", "e", "n", "t", "e", "r">>
W_left == <<"l", "e", "f", "t">>
W_right == <<"r", "i", "g", "h", "t">>
W_top == <<"t", "o", "p">>
W_bottom == <<"b", "o", "t", "t", "o", "m">>
W_none == <<"n", "o", "n", "e">>
W_any == <<"a", "n", "y">>

\* Alignment::can_be_horizontal
can_be_horizontal(a) == a \in {W_center, W_left, W_right}

\* A vertical alignment that leaves the centre to the horizontal ones.
can_be_verticalOffCentre(a) == a \in {W_top, W_bottom}

\* Alignment::can_be_vertical
can_be_vertical(a) == a \in {W_center, W_top, W_bottom}

\* The two match expressions that build egui::Align2.
Anchor_align(x, y) ==
    IF x \notin {W_left, W_center, W_right} \/ y \notin {W_top, W_center, W_bottom}
    THEN PPanic("unreachable")
    ELSE POk(<< CASE x = W_left -> "Min" [] x = W_center -> "Center" [] x = W_right -> "Max",
                CASE y = W_top -> "Min" [] y = W_center -> "Center" [] y = W_bottom -> "Max" >>)

\* The offset of an anchor: nothing, or x and y.
Anchor_offset(r, e) ==
    IF Len(e) < 3 THEN POk(<<0, 0>>)
    ELSE LET x == Reader_read("f32", e[3]) IN
         IF ~IsOk(x) THEN x
         ELSE IF Len(e) < 4 THEN PErr("InvalidLength", 3, <<"{ align valign x y }">>, r.path)
         ELSE LET y == Reader_read("f32", e[4]) IN
              IF ~IsOk(y) THEN y
              ELSE IF Len(e) > 4 THEN PErr("InvalidLength", 5, <<"{ align valign x y }">>, r.path)
              ELSE POk(<<x.val, y.val>>)

\* impl ReadUiconf for Anchor
Anchor_read_uiconf(r) ==
    LET seq == read_array(r) IN
    IF ~IsOk(seq) THEN seq
    ELSE IF Len(seq.val) < 1 THEN PErr("InvalidLength", 0, <<"{ align valign x y }">>, r.path)
    ELSE LET a1 == Reader_read("Alignment", seq.val[1]) IN
    IF ~IsOk(a1) THEN a1
    ELSE IF Len(seq.val) < 2 THEN PErr("InvalidLength", 1, <<"{ align valign x y }">>, r.path)
    ELSE LET a2 == Reader_read("Alignment", seq.val[2]) IN
    IF ~IsOk(a2) THEN a2
    ELSE LET swap == ~(can_be_horizontal(a1.val) /\ can_be_vertical(a2.val))
             align_x == IF swap THEN a2.val ELSE a1.val
             align_y == IF swap THEN a1.val ELSE a2.val
         IN
    IF swap /\ ~(can_be_vertical(a1.val) /\ can_be_horizontal(a2.val))
    THEN PErr("Custom", "invalid alignment", <<a1.val, a2.val>>, r.path)
    ELSE LET align == Anchor_align(align_x, align_y)
             offset == Anchor_offset(r, seq.val)
         IN  IF ~IsOk(align) THEN align
             ELSE IF ~IsOk(offset) THEN offset
             ELSE POk([align |-> align.val, offset |-> offset.val])

\* The optional alpha of a colour.
Color_alpha(e) == IF Len(e) < 4 THEN POk(IntMax("u8")) ELSE Reader_read("u8", e[4])

\* impl ReadUiconf for Color
Color_read_uiconf(r) ==
    IF is_scalar(r) THEN Reader_read("ColorName", r)
    ELSE LET seq == read_array(r) IN
    IF ~IsOk(seq) THEN seq
    ELSE IF Len(seq.val) < 1 THEN PErr("InvalidLength", 0, <<"{ r g b a? }">>, r.path)
    ELSE LET cr == Reader_read("u8", seq.val[1]) IN
    IF ~IsOk(cr) THEN cr
    ELSE IF Len(seq.val) < 2 THEN PErr("InvalidLength", 1, <<"{ r g b a? }">>, r.path)
    ELSE LET cg == Reader_read("u8", seq.val[2]) IN
    IF ~IsOk(cg) THEN cg
    ELSE IF Len(seq.val) < 3 THEN PErr("InvalidLength", 2, <<"{ r g b a? }">>, r.path)
    ELSE LET cb == Reader_read("u8", seq.val[3])
             ca == Color_alpha(seq.val)
         IN
    IF ~IsOk(cb) THEN cb
    ELSE IF ~IsOk(ca) THEN ca
    ELSE IF Len(seq.val) > 4 THEN PErr("InvalidLength", 5, <<"{ r g b a? }">>, r.path)
    ELSE POk(<<cr.val, cg.val, cb.val, ca.val>>)


\* impl ReadUiconf for Stroke
Stroke_read_uiconf(r) ==
    IF IsOk(read_scalar(r)) /\ read_scalar(r).val = W_none
    THEN POk([width |-> [b |-> "Value", v |-> 0], color |-> [b |-> "Value", v |-> <<0, 0, 0, 0>>]])
    ELSE LET seq == read_array(r) IN
    IF ~IsOk(seq) THEN seq
    ELSE IF Len(seq.val) < 1 THEN PErr("InvalidLength", 0, <<"{ width color } or none">>, r.path)
    ELSE LET width == Reader_read("Binding<f32>", seq.val[1]) IN
    IF ~IsOk(width) THEN width
    ELSE IF Len(seq.val) < 2 THEN PErr("InvalidLength", 1, <<"{ width color } or none">>, r.path)
    ELSE LET color == Reader_read("Binding<Color>", seq.val[2]) IN
    IF ~IsOk(color) THEN color
    ELSE IF Len(seq.val) > 2 THEN PErr("InvalidLength", 3, <<"{ width color } or none">>, r.path)
    ELSE POk([width |-> width.val, color |-> color.val])

\* read::<f32>().unwrap_or(default)
f32_unwrap_or(r, default) ==
    LET v == Reader_read("f32", r) IN IF IsOk(v) THEN v.val ELSE default

\* The scalar form rounding the top-left corner only.
Rounding_read_uiconfTopLeftOnly(r) ==
    IF IsOk(read_scalar(r))
    THEN Try(Reader_read("f32", r), LAMBDA v : POk([nw |-> v, ne |-> 0, se |-> 0, sw |-> 0]))
    ELSE PErr("InvalidType", token_type(r), <<"scalar">>, r.path)

\* impl ReadUiconf for Rounding
Rounding_read_uiconf(r) ==
    IF IsOk(read_scalar(r))
    THEN IF read_scalar(r).val = W_none THEN POk([nw |-> 0, ne |-> 0, se |-> 0, sw |-> 0])
         ELSE LET v == Reader_read("f32", r) IN
              IF ~IsOk(v) THEN v
              ELSE POk([nw |-> v.val, ne |-> v.val, se |-> v.val, sw |-> v.val])
    ELSE LET seq == read_array(r)
             EXPECTED == <<"{ top-left top-right bottom-right bottom-left }">>
         IN
    IF ~IsOk(seq) THEN seq
    ELSE IF Len(seq.val) < 1 THEN PErr("InvalidLength", 0, EXPECTED, r.path)
    ELSE LET top_left == Reader_read("f32", seq.val[1]) IN
    IF ~IsOk(top_left) THEN top_left
    ELSE IF Len(seq.val) < 2 THEN PErr("InvalidLength", 1, EXPECTED, r.path)
    ELSE IF Len(seq.val) < 3 THEN PErr("InvalidLength", 2, EXPECTED, r.path)
    ELSE IF Len(seq.val) < 4 THEN PErr("InvalidLength", 3, EXPECTED, r.path)
    ELSE IF Len(seq.val) > 4 THEN PErr("InvalidLength", 5, EXPECTED, r.path)
    ELSE LET top_right == f32_unwrap_or(seq.val[2], top_left.val) IN
         POk([nw |-> top_left.val,
              ne |-> top_right,
              se |-> f32_unwrap_or(seq.val[3], top_left.val),
              sw |-> f32_unwrap_or(seq.val[4], top_right)])

SenseType_read_uiconf(r) == Enum_read_uiconf(SenseType_VARIANTS, r)

RECURSIVE Sense_types(_, _, _)
Sense_types(e, k, acc) ==
    IF k > Len(e) THEN POk(acc)
    ELSE LET ty == Reader_read("SenseType", e[k]) IN
         IF ~IsOk(ty) THEN ty ELSE Sense_types(e, k + 1, acc \cup {ty.val})

\* impl ReadUiconf for Sense
Sense_read_uiconf(r) ==
    IF IsOk(read_scalar(r))
    THEN IF InSeq(read_scalar(r).val, SenseKind_VARIANTS)
         THEN POk([kind |-> read_scalar(r).val])
         ELSE PErr("UnknownVariant", read_scalar(r).val, SenseKind_VARIANTS, r.path)
    ELSE LET seq == read_array(r) IN
         IF ~IsOk(seq) THEN seq
         ELSE Try(Sense_types(seq.val, 1, {}), LAMBDA tys : POk([types |-> tys]))

SIZE_ANY_IS_ZERO == 0
SIZE_ANY_IS_INF == 1
SIZE_ANY_DISALLOWED == 2

\* A component read as a number, `any` having no meaning of its own.
AnyOrF32_read_uiconfNoSentinel(r) ==
    Try(Reader_read("f32", r), LAMBDA v : POk(<<v>>))

\* impl ReadUiconf for AnyOrF32: <<>> is None, <<x>> is Some(x)
AnyOrF32_read_uiconf(r) ==
    LET scalar == read_scalar(r) IN
    IF ~IsOk(scalar) THEN scalar
    ELSE IF scalar.val = W_any THEN POk(<<>>)
    ELSE LET v == Reader_read("f32", r) IN IF IsOk(v) THEN POk(<<v.val>>) ELSE v

\* Option::unwrap_or of a component of a Size
Size_unwrap_or(opt, ANY) ==
    IF opt # <<>> THEN opt[1]
    ELSE IF ANY = SIZE_ANY_IS_ZERO THEN 0 ELSE "inf"

\* impl ReadUiconf for Size<ANY>
Size_read_uiconf(ANY, r) ==
    LET seq == read_array(r)
        Component(x) == IF ANY = SIZE_ANY_DISALLOWED
                        THEN LET v == Reader_read("f32", x) IN
                             IF IsOk(v) THEN POk(<<v.val>>) ELSE v
                        ELSE Reader_read("AnyOrF32", x)
    IN
    IF ~IsOk(seq) THEN seq
    ELSE IF Len(seq.val) < 1 THEN PErr("InvalidLength", 0, <<"{ x y }">>, r.path)
    ELSE LET x == Component(seq.val[1]) IN
    IF ~IsOk(x) THEN x
    ELSE IF Len(seq.val) < 2 THEN PErr("InvalidLength", 1, <<"{ x y }">>, r.path)
    ELSE LET y == Component(seq.val[2]) IN
    IF ~IsOk(y) THEN y
    ELSE IF Len(seq.val) > 2 THEN PErr("InvalidLength", 3, <<"{ x y }">>, r.path)
    ELSE POk(<<Size_unwrap_or(x.val, ANY), Size_unwrap_or(y.val, ANY)>>)

\* impl ReadUiconf for Empty
Empty_read_uiconf(r) ==
    IF r.v.t \in {"Array", "Object"} THEN POk("Empty")
    ELSE PErr("InvalidType", token_type(r), <<"{}">>, r.path)

(***************************************************************************)
(* Object decoders                                                         *)
(***************************************************************************)
RECURSIVE FoldFields(_, _, _, _)

\* `for (key, value) in value.read_object()?`: the loop body is Step, which
\* returns the locals after the field, or the error that ends the decode.
FoldFields(Step(_, _, _), fs, k, st) ==
    IF k > Len(fs) THEN POk(st)
    ELSE Try(Step(fs[k].key, fs[k].value, st), LAMBDA n : FoldFields(Step, fs, k + 1, n))

\* Ok(Self::Variant(value.read()?))
Variant(tag, x) == IF IsOk(x) THEN POk([tag |-> tag, v |-> x.val]) ELSE x

RECURSIVE Vec_items(_, _, _, _)
Vec_items(T, e, k, acc) ==
    IF k > Len(e) THEN POk(acc)
    ELSE LET x == Reader_read(T, e[k]) IN
         IF ~IsOk(x) THEN x ELSE Vec_items(T, e, k + 1, Append(acc, x.val))

\* impl ReadUiconf for Vec<T>
Vec_read_uiconf(T, r) ==
    LET array == read_array(r) IN
    IF ~IsOk(array) THEN array ELSE Vec_items(T, array.val, 1, <<>>)

RichTextProperty_FIELDS ==
    <<"size", "style", "color", "background_color", "line_height", "extra_letter_spacing">>

RichTextProperty_read_map_value(tag, r) ==
    CASE tag = "size" -> Variant("Size", Reader_read("Binding<f32>", r))
      [] tag = "extra_letter_spacing" -> Variant("ExtraLetterSpacing", Reader_read("Binding<f32>", r))
      [] tag = "line_height" -> Variant("LineHeight", Reader_read("Binding<f32>", r))
      [] tag = "style" -> Variant("Style", Reader_read("Vec<RichTextStyle>", r))
      [] tag = "background_color" -> Variant("BackgroundColor", Reader_read("Binding<Color>", r))
      [] tag = "color" -> Variant("Color", Reader_read("Binding<Color>", r))
      [] OTHER -> PErr("UnknownField", tag, RichTextProperty_FIELDS, r.path)

RichText_FIELDS == <<"text">> \o RichTextProperty_FIELDS

\* The loop body of RichText::read_uiconf.
RichText_field(key, value, st) ==
    IF key = "text"
    THEN IF st.text # <<>> THEN PErr("DuplicateField", "text", <<>>, value.path)
         ELSE Try(Reader_read("Binding<String>", value),
                  LAMBDA t : POk([st EXCEPT !.text = <<t>>]))
    ELSE IF InSeq(key, RichTextProperty_FIELDS)
    THEN Try(RichTextProperty_read_map_value(key, value),
             LAMBDA p : POk([st EXCEPT !.props = Append(@, p)]))
    ELSE PErr("UnknownField", key, RichText_FIELDS, value.path)

\* impl ReadUiconf for RichText
RichText_read_uiconf(r) ==
    IF is_scalar(r)
    THEN Try(Reader_read("Binding<String>", r), LAMBDA t : POk([text |-> t, props |-> <<>>]))
    ELSE Try(read_object(r), LAMBDA fs :
         Try(FoldFields(RichText_field, fs, 1, [text |-> <<>>, props |-> <<>>]), LAMBDA st :
         IF st.text = <<>> THEN PErr("MissingField", "text", <<>>, r.path)
         ELSE POk([text |-> st.text[1], props |-> st.props])))

ResponseProperty_FIELDS ==
    <<"clicked", "secondary_clicked", "middle_clicked", "double_clicked", "triple_clicked",
      "clicked_elsewhere", "hovered", "highlighted", "changed", "on_hover",
      "on_disabled_hover", "on_hover_at_pointer", "highlight">>

ResponseProperty_read_map_value(tag, r) ==
    CASE tag = "clicked" -> Variant("Clicked", Reader_read("BindingRef", r))
      [] tag = "secondary_clicked" -> Variant("SecondaryClicked", Reader_read("BindingRef", r))
      [] tag = "middle_clicked" -> Variant("MiddleClicked", Reader_read("BindingRef", r))
      [] tag = "double_clicked" -> Variant("DoubleClicked", Reader_read("BindingRef", r))
      [] tag = "triple_clicked" -> Variant("TripleClicked", Reader_read("BindingRef", r))
      [] tag = "clicked_elsewhere" -> Variant("ClickedElsewhere", Reader_read("BindingRef", r))
      [] tag = "hovered" -> Variant("Hovered", Reader_read("BindingRef", r))
      [] tag = "highlighted" -> Variant("Highlighted", Reader_read("BindingRef", r))
      [] tag = "changed" -> Variant("Changed", Reader_read("BindingRef", r))
      [] tag = "on_hover" -> Variant("OnHover", Reader_read("Content", r))
      [] tag = "on_disabled_hover" -> Variant("OnDisabledHover", Reader_read("Content", r))
      [] tag = "on_hover_at_pointer" -> Variant("OnHoverAtPointer", Reader_read("Content", r))
      [] tag = "highlight" -> Variant("Highlight", Reader_read("Binding<bool>", r))
      [] OTHER -> PErr("UnknownField", tag, ResponseProperty_FIELDS, r.path)

ButtonProperty_FIELDS ==
    <<"shortcut_text", "wrap", "fill", "stroke", "sense", "frame", "min_size", "rounding",
      "selected">>

ButtonProperty_read_map_value(tag, r) ==
    CASE tag = "shortcut_text" -> Variant("ShortcutText", Reader_read("RichText", r))
      [] tag = "wrap" -> Variant("Wrap", Reader_read("bool", r))
      [] tag = "fill" -> Variant("Fill", Reader_read("Binding<Color>", r))
      [] tag = "stroke" -> Variant("Stroke", Reader_read("Stroke", r))
      [] tag = "sense" -> Variant("Sense", Reader_read("Sense", r))
      [] tag = "frame" -> Variant("Frame", Reader_read("bool", r))
      [] tag = "min_size" -> Variant("MinSize", Reader_read("Size<SIZE_ANY_IS_ZERO>", r))
      [] tag = "rounding" -> Variant("Rounding", Reader_read("Rounding", r))
      [] tag = "selected" -> Variant("Selected", Reader_read("bool", r))
      [] OTHER -> PErr("UnknownField", tag, ButtonProperty_FIELDS, r.path)

Button_FIELDS ==
    <<"text", "small", "visible">> \o ButtonProperty_FIELDS \o ResponseProperty_FIELDS

\* Button::new
Button_new(text) ==
    [text |-> text, small |-> FALSE, visible |-> <<>>, props |-> <<>>, response |-> <<>>]

\* The `small` arm of Button::read_uiconf.
Button_small(value, st) ==
    Try(Reader_read("bool", value), LAMBDA s : POk([st EXCEPT !.small = s]))

\* The loop body of Button::read_uiconf.
Button_field(key, value, st) ==
    CASE key = "text" ->
            IF st.text # <<>> THEN PErr("DuplicateField", "text", <<>>, value.path)
            ELSE Try(Reader_read("RichText", value), LAMBDA t : POk([st EXCEPT !.text = <<t>>]))
      [] key = "visible" ->
            IF st.visible # <<>> THEN PErr("DuplicateField", "visible", <<>>, value.path)
            ELSE Try(Reader_read("Binding<bool>", value),
                     LAMBDA v : POk([st EXCEPT !.visible = <<v>>]))
      [] key = "small" -> Button_small(value, st)
      [] OTHER ->
            IF InSeq(key, ButtonProperty_FIELDS)
            THEN Try(ButtonProperty_read_map_value(key, value),
                     LAMBDA p : POk([st EXCEPT !.props = Append(@, p)]))
            ELSE IF InSeq(key, ResponseProperty_FIELDS)
            THEN Try(ResponseProperty_read_map_value(key, value),
                     LAMBDA p : POk([st EXCEPT !.response = Append(@, p)]))
            ELSE PErr("UnknownField", key, Button_FIELDS, value.path)

\* impl ReadUiconf for Button
Button_read_uiconf(r) ==
    IF is_scalar(r)
    THEN Try(Reader_read("RichText", r), LAMBDA t : POk(Button_new(t)))
    ELSE Try(read_object(r), LAMBDA fs :
         Try(FoldFields(Button_field, fs, 1, Button_new(<<>>)), LAMBDA st :
         IF st.text = <<>> THEN PErr("MissingField", "text", <<>>, r.path)
         ELSE POk([st EXCEPT !.text = @[1]])))

LabelProperty_FIELDS == <<"wrap", "truncate", "sense">>

LabelProperty_read_map_value(tag, r) ==
    CASE tag = "wrap" -> Variant("Wrap", Reader_read("bool", r))
      [] tag = "truncate" -> Variant("Truncate", Reader_read("bool", r))
      [] tag = "sense" -> Variant("Sense", Reader_read("Sense", r))
      [] OTHER -> PErr("UnknownField", tag, LabelProperty_FIELDS, r.path)

Label_FIELDS == <<"text", "visible">> \o LabelProperty_FIELDS \o ResponseProperty_FIELDS

\* Label::new
Label_new(text) == [text |-> text, visible |-> <<>>, props |-> <<>>, response |-> <<>>]

\* The loop body of Label::read_uiconf.
Label_field(key, value, st) ==
    IF key = "text"
    THEN IF st.text # <<>> THEN PErr("DuplicateField", "text", <<>>, value.path)
         ELSE Try(Reader_read("RichText", value), LAMBDA t : POk([st EXCEPT !.text = <<t>>]))
    ELSE IF key = "visible"
    THEN IF st.visible # <<>> THEN PErr("DuplicateField", "visible", <<>>, value.path)
         ELSE Try(Reader_read("Binding<bool>", value),
                  LAMBDA v : POk([st EXCEPT !.visible = <<v>>]))
    ELSE IF InSeq(key, LabelProperty_FIELDS)
    THEN Try(LabelProperty_read_map_value(key, value),
             LAMBDA p : POk([st EXCEPT !.props = Append(@, p)]))
    ELSE IF InSeq(key, ResponseProperty_FIELDS)
    THEN Try(ResponseProperty_read_map_value(key, value),
             LAMBDA p : POk([st EXCEPT !.response = Append(@, p)]))
    ELSE PErr("UnknownField", key, Label_FIELDS, value.path)

\* impl ReadUiconf for Label
Label_read_uiconf(r) ==
    IF is_scalar(r)
    THEN Try(Reader_read("RichText", r), LAMBDA t : POk(Label_new(t)))
    ELSE Try(read_object(r), LAMBDA fs :
         Try(FoldFields(Label_field, fs, 1, Label_new(<<>>)), LAMBDA st :
         IF st.text = <<>> THEN PErr("MissingField", "text", <<>>, r.path)
         ELSE POk([st EXCEPT !.text = @[1]])))

SeparatorProperty_FIELDS == <<"vertical", "spacing", "grow", "shrink">>

SeparatorProperty_read_map_value(tag, r) ==
    CASE tag = "vertical" -> Variant("Vertical", Reader_read("bool", r))
      [] tag = "spacing" -> Variant("Spacing", Reader_read("f32", r))
      [] tag = "grow" -> Variant("Grow", Reader_read("f32", r))
      [] tag = "shrink" -> Variant("Shrink", Reader_read("f32", r))
      [] OTHER -> PErr("UnknownField", tag, SeparatorProperty_FIELDS, r.path)

Separator_FIELDS == <<"visible">> \o SeparatorProperty_FIELDS \o ResponseProperty_FIELDS

\* The loop body of Separator::read_uiconf.
Separator_field(key, value, st) ==
    IF key = "visible"
    THEN IF st.visible # <<>> THEN PErr("DuplicateField", "visible", <<>>, value.path)
         ELSE Try(Reader_read("Binding<bool>", value),
                  LAMBDA v : POk([st EXCEPT !.visible = <<v>>]))
    ELSE IF InSeq(key, SeparatorProperty_FIELDS)
    THEN Try(SeparatorProperty_read_map_value(key, value),
             LAMBDA p : POk([st EXCEPT !.props = Append(@, p)]))
    ELSE IF InSeq(key, ResponseProperty_FIELDS)
    THEN Try(ResponseProperty_read_map_value(key, value),
             LAMBDA p : POk([st EXCEPT !.response = Append(@, p)]))
    ELSE PErr("UnknownField", key, Separator_FIELDS, value.path)

\* impl ReadUiconf for Separator
Separator_read_uiconf(r) ==
    Try(read_object(r), LAMBDA fs :
        FoldFields(Separator_field, fs, 1,
                   [visible |-> <<>>, props |-> <<>>, response |-> <<>>]))

ContentWidget_FIELDS == <<"button", "label", "separator", "layout">>

ContentWidget_read_map_value(tag, r) ==
    CASE tag = "button" -> Variant("Button", Reader_read("Button", r))
      [] tag = "label" -> Variant("Label", Reader_read("Label", r))
      [] tag = "separator" -> Variant("Separator", Reader_read("Separator", r))
      [] tag = "layout" -> Variant("Layout", Reader_read("Layout", r))
      [] OTHER -> PErr("UnknownField", tag, ContentWidget_FIELDS, r.path)

\* The loop body of Content::read_uiconf.
Content_field(key, value, st) ==
    Try(ContentWidget_read_map_value(key, value), LAMBDA w : POk(Append(st, w)))

\* impl ReadUiconf for Content
Content_read_uiconf(r) ==
    IF is_scalar(r)
    THEN Try(Reader_read("RichText", r),
             LAMBDA t : POk(<<[tag |-> "Label", v |-> Label_new(t)]>>))
    ELSE Try(read_object(r), LAMBDA fs : FoldFields(Content_field, fs, 1, <<>>))

Layout_FIELDS ==
    <<"main_dir", "main_wrap", "main_align", "main_justify", "cross_align", "cross_justify",
      "visible">> \o ContentWidget_FIELDS

\* egui::Layout::default() with no visible binding, no content.
Layout_default ==
    [main_dir |-> <<"t", "o", "p", "_", "d", "o", "w", "n">>, main_wrap |-> FALSE,
     main_align |-> <<"m", "i", "n">>, main_justify |-> FALSE,
     cross_align |-> <<"m", "i", "n">>, cross_justify |-> FALSE,
     visible |-> <<>>, content |-> <<>>, last_content |-> <<>>]

\* The match of Layout::read_uiconf's loop body: the locals after the field.
Layout_match(key, value, st) ==
    LET Set(x, Upd(_)) == IF IsOk(x) THEN POk(Upd(x.val)) ELSE x
        MainDir(x) == [st EXCEPT !.main_dir = x]
        MainWrap(x) == [st EXCEPT !.main_wrap = x]
        MainAlign(x) == [st EXCEPT !.main_align = x]
        MainJustify(x) == [st EXCEPT !.main_justify = x]
        CrossAlign(x) == [st EXCEPT !.cross_align = x]
        CrossJustify(x) == [st EXCEPT !.cross_justify = x]
        Visible(x) == [st EXCEPT !.visible = <<x>>]
        Widget(x) == [st EXCEPT !.content = Append(@, x), !.last_content = <<key>>]
    IN
    CASE key = "main_dir" -> Set(Reader_read("Direction", value), MainDir)
      [] key = "main_wrap" -> Set(Reader_read("bool", value), MainWrap)
      [] key = "main_align" -> Set(Reader_read("Align", value), MainAlign)
      [] key = "main_justify" -> Set(Reader_read("bool", value), MainJustify)
      [] key = "cross_align" -> Set(Reader_read("Align", value), CrossAlign)
      [] key = "cross_justify" -> Set(Reader_read("bool", value), CrossJustify)
      [] key = "visible" -> Set(Reader_read("Binding<bool>", value), Visible)
      [] OTHER ->
            IF InSeq(key, ContentWidget_FIELDS)
            THEN Set(ContentWidget_read_map_value(key, value), Widget)
            ELSE PErr("UnknownField", key, Layout_FIELDS, value.path)

\* The loop body of Layout::read_uiconf: the match, then the ordering check.
Layout_field(key, value, st) ==
    Try(Layout_match(key, value, st), LAMBDA n :
    IF ~InSeq(key, ContentWidget_FIELDS) /\ n.last_content # <<>>
    THEN PErr("Custom", "all layout properties should be above content",
              <<key, n.last_content[1]>>, value.path)
    ELSE POk(n))

\* impl ReadUiconf for Layout
Layout_read_uiconf(r) ==
    Try(read_object(r), LAMBDA fs :
    Try(FoldFields(Layout_field, fs, 1, Layout_default), LAMBDA st :
    POk([layout |-> [main_dir |-> st.main_dir, main_wrap |-> st.main_wrap,
                     main_align |-> st.main_align, main_justify |-> st.main_justify,
                     cross_align |-> st.cross_align, cross_justify |-> st.cross_justify],
         visible |-> st.visible,
         content |-> st.content])))

WindowProperty_FIELDS ==
    <<"id", "anchor", "title_bar", "default_size", "min_size", "max_size", "fixed_size",
      "auto_sized", "resizable", "enabled", "interactable", "movable", "collapsible">>

WindowProperty_read_map_value(tag, r) ==
    CASE tag = "anchor" -> Variant("Anchor", Reader_read("Anchor", r))
      [] tag = "title_bar" -> Variant("TitleBar", Reader_read("Binding<bool>", r))
      [] tag = "default_size" -> Variant("DefaultSize", Reader_read("Size<SIZE_ANY_DISALLOWED>", r))
      [] tag = "min_size" -> Variant("MinSize", Reader_read("Size<SIZE_ANY_IS_ZERO>", r))
      [] tag = "max_size" -> Variant("MaxSize", Reader_read("Size<SIZE_ANY_IS_INF>", r))
      [] tag = "fixed_size" -> Variant("FixedSize", Reader_read("Size<SIZE_ANY_DISALLOWED>", r))
      [] tag = "auto_sized" -> Variant("AutoSized", Reader_read("Empty", r))
      [] tag = "resizable" -> Variant("Resizable", Reader_read("Binding<bool>", r))
      [] tag = "enabled" -> Variant("Enabled", Reader_read("Binding<bool>", r))
      [] tag = "interactable" -> Variant("Interactable", Reader_read("Binding<bool>", r))
      [] tag = "movable" -> Variant("Movable", Reader_read("Binding<bool>", r))
      [] tag = "collapsible" -> Variant("Collapsible", Reader_read("Binding<bool>", r))
      [] OTHER -> PErr("UnknownField", tag, WindowProperty_FIELDS, r.path)

Window_FIELDS == <<"title">> \o WindowProperty_FIELDS \o ContentWidget_FIELDS

\* The if-chain of Window::read_uiconf's loop body: the locals after the field.
Window_match(key, value, st) ==
    IF key = "title"
    THEN IF st.title # <<>> THEN PErr("DuplicateField", "title", <<>>, value.path)
         ELSE Try(Reader_read("RichText", value), LAMBDA t : POk([st EXCEPT !.title = <<t>>]))
    ELSE IF InSeq(key, WindowProperty_FIELDS)
    THEN Try(WindowProperty_read_map_value(key, value),
             LAMBDA p : POk([st EXCEPT !.props = Append(@, p)]))
    ELSE IF InSeq(key, ContentWidget_FIELDS)
    THEN LET w == ContentWidget_read_map_value(key, value) IN
         IF ~IsOk(w) THEN w
         ELSE POk([st EXCEPT !.content = Append(@, w.val), !.last_content = <<key>>])
    ELSE PErr("UnknownField", key, Window_FIELDS, value.path)

\* The loop body without the ordering check.
Window_fieldUnordered(key, value, st) == Window_match(key, value, st)

\* The loop body of Window::read_uiconf: the if-chain, then the ordering check.
Window_field(key, value, st) ==
    LET should_be_on_top == key = "title" \/ InSeq(key, WindowProperty_FIELDS) IN
    Try(Window_match(key, value, st), LAMBDA n :
    IF should_be_on_top /\ n.last_content # <<>>
    THEN PErr("Custom", "all window properties should be above content",
              <<key, n.last_content[1]>>, value.path)
    ELSE POk(n))

\* A window that may go without a title.
Window_read_uiconfUntitled(r) ==
    Try(read_object(r), LAMBDA fs :
    Try(FoldFields(Window_field, fs, 1,
                   [title |-> <<>>, props |-> <<>>, content |-> <<>>,
                    last_content |-> <<>>]), LAMBDA st :
    POk([title |-> st.title, props |-> st.props, content |-> st.content])))

\* impl ReadUiconf for Window
Window_read_uiconf(r) ==
    Try(read_object(r), LAMBDA fs :
    Try(FoldFields(Window_field, fs, 1,
                   [title |-> <<>>, props |-> <<>>, content |-> <<>>,
                    last_content |-> <<>>]), LAMBDA st :
    IF st.title = <<>> THEN PErr("MissingField", "title", <<>>, r.path)
    ELSE POk([title |-> st.title[1], props |-> st.props, content |-> st.content])))

\* Reader::read::<T>: T::read_uiconf(self), for each T the model decodes.
Reader_read(T, r) ==
    CASE T = "String" -> String_read_uiconf(r)
      [] T = "bool" -> bool_read_uiconf(r)
      [] T = "f32" -> f32_read_uiconf(r)
      [] T = "u8" -> u8_read_uiconf(r)
      [] T = "i8" -> i8_read_uiconf(r)
      [] T = "u16" -> u16_read_uiconf(r)
      [] T = "i16" -> i16_read_uiconf(r)
      [] T = "u32" -> u32_read_uiconf(r)
      [] T = "i32" -> i32_read_uiconf(r)
      [] T = "u64" -> u64_read_uiconf(r)
      [] T = "i64" -> i64_read_uiconf(r)
      [] T = "BindingRef" -> BindingRef_read_uiconf(r)
      [] T = "Binding<f32>" -> Binding_read_uiconf("f32", r)
      [] T = "Binding<bool>" -> Binding_read_uiconf("bool", r)
      [] T = "Binding<String>" -> Binding_read_uiconf("String", r)
      [] T = "Binding<Color>" -> Binding_read_uiconf("Color", r)
      [] T = "Alignment" -> Alignment_read_uiconf(r)
      [] T = "Direction" -> Direction_read_uiconf(r)
      [] T = "Align" -> Align_read_uiconf(r)
      [] T = "RichTextStyle" -> RichTextStyle_read_uiconf(r)
      [] T = "ColorName" -> ColorName_read_uiconf(r)
      [] T = "SenseType" -> SenseType_read_uiconf(r)
      [] T = "Vec<RichTextStyle>" -> Vec_read_uiconf("RichTextStyle", r)
      [] T = "Anchor" -> Anchor_read_uiconf(r)
      [] T = "Color" -> Color_read_uiconf(r)
      [] T = "Stroke" -> Stroke_read_uiconf(r)
      [] T = "Rounding" -> Rounding_read_uiconf(r)
      [] T = "Sense" -> Sense_read_uiconf(r)
      [] T = "AnyOrF32" -> AnyOrF32_read_uiconf(r)
      [] T = "Size<SIZE_ANY_IS_ZERO>" -> Size_read_uiconf(SIZE_ANY_IS_ZERO, r)
      [] T = "Size<SIZE_ANY_IS_INF>" -> Size_read_uiconf(SIZE_ANY_IS_INF, r)
      [] T = "Size<SIZE_ANY_DISALLOWED>" -> Size_read_uiconf(SIZE_ANY_DISALLOWED, r)
      [] T = "Empty" -> Empty_read_uiconf(r)
      [] T = "RichText" -> RichText_read_uiconf(r)
      [] T = "Button" -> Button_read_uiconf(r)
      [] T = "Label" -> Label_read_uiconf(r)
      [] T = "Separator" -> Separator_read_uiconf(r)
      [] T = "Content" -> Content_read_uiconf(r)
      [] T = "Layout" -> Layout_read_uiconf(r)
      [] T = "Window" -> Window_read_uiconf(r)

Root_FIELDS == <<"window">>

\* The loop body with a later `window` replacing an earlier one.
Root_fieldReplacing(f, st) ==
    LET value == Reader(f.value, <<f.key>>) IN
    IF f.key = "window"
    THEN IF f.op # "" THEN PErr("UnexpectedOperator", f.op, <<>>, value.path)
         ELSE Try(Reader_read("Window", value), LAMBDA w : POk(<<w>>))
    ELSE PErr("UnknownField", f.key, Root_FIELDS, value.path)

\* The loop body of Root::read over (key, op, value); st is `window`.
Root_field(f, st) ==
    LET value == Reader(f.value, <<f.key>>) IN
    IF f.key = "window"
    THEN IF f.op # "" THEN PErr("UnexpectedOperator", f.op, <<>>, value.path)
         ELSE IF st # <<>> THEN PErr("DuplicateField", "window", <<>>, value.path)
         ELSE Try(Reader_read("Window", value), LAMBDA w : POk(<<w>>))
    ELSE PErr("UnknownField", f.key, Root_FIELDS, value.path)

RECURSIVE Root_fields(_, _, _)
Root_fields(fs, k, st) ==
    IF k > Len(fs) THEN POk(st)
    ELSE Try(Root_field(fs[k], st), LAMBDA n : Root_fields(fs, k + 1, n))

\* TextTape::from_slice(data).unwrap(): a buffer the tape parser rejects
\* is Err, and unwrap panics on it.
TextTape_from_slice_unwrap(bytes) ==
    IF bytes.malformed THEN PPanic("unwrap")
    ELSE POk(bytes.tape)

\* Root::read
Root_read(bytes) ==
    Try(TextTape_from_slice_unwrap(bytes), LAMBDA tape :
    Try(Root_fields(tape.fields, 1, <<>>), LAMBDA window :
    IF window = <<>> THEN PErr("MissingField", "window", <<>>, <<>>)
    ELSE POk(window[1])))

(***************************************************************************)
(* Decoding a document: the inputs and the decode steps                    *)
(***************************************************************************)
\* The most fields an input object holds.
MaxFields == 3

Txt == Quoted(<<"t">>)
Yes == Unquoted(<<"y", "e", "s">>)
No == Unquoted(<<"n", "o">>)
RefF == Unquoted(<<"@", "f">>)
Five == Unquoted(<<"5">>)
Braces == Array(<<>>)

\* Sequences of at most n elements of S.
SeqUpTo(S, n) == UNION {[1..k -> S] : k \in 0..n}

WindowInputFields ==
    {Field("title", Txt), Field("title", Braces), Field("resizable", Yes),
     Field("resizable", Txt), Field("id", Txt), Field("button", Txt),
     Field("layout", Braces), Field("bogus", Txt), FieldOp("resizable", "<", Yes)}

LayoutInputFields ==
    {Field("main_dir", Unquoted(<<"t", "o", "p", "_", "d", "o", "w", "n">>)),
     Field("main_wrap", Yes), Field("main_wrap", No), Field("main_wrap", Txt),
     Field("visible", RefF), Field("visible", Yes), Field("label", Txt),
     Field("separator", Braces), Field("bogus", Txt)}

ButtonInputFields ==
    {Field("text", Txt), Field("visible", Yes), Field("small", Yes), Field("small", No),
     Field("wrap", Yes), Field("clicked", RefF), Field("clicked", Txt),
     Field("on_hover", Txt), Field("bogus", Txt)}

LabelInputFields ==
    {Field("text", Txt), Field("text", RefF), Field("visible", Yes), Field("visible", RefF),
     Field("wrap", Yes), Field("truncate", Txt), Field("hovered", RefF),
     Field("bogus", Txt)}

SeparatorInputFields ==
    {Field("visible", Yes), Field("visible", RefF), Field("vertical", Yes),
     Field("spacing", Five), Field("spacing", Txt), Field("clicked", RefF),
     Field("bogus", Txt)}

RichTextInputFields ==
    {Field("text", Txt), Field("text", RefF), Field("size", Five), Field("size", Txt),
     Field("color", Unquoted(<<"r", "e", "d">>)), Field("style", Braces),
     Field("bogus", Txt)}

RootInputFields ==
    {Field("window", Object(<<Field("title", Txt)>>, <<>>)),
     Field("window", Object(<<Field("title", Quoted(<<"@", "f">>))>>, <<>>)),
     Field("window", Braces),
     Field("window", Txt), FieldOp("window", "<", Object(<<Field("title", Txt)>>, <<>>)),
     Field("bogus", Txt)}

Targets == {"Root", "Window", "Layout", "Button", "Label", "Separator", "RichText"}

InputFieldsOf(t) ==
    CASE t = "Root" -> RootInputFields
      [] t = "Window" -> WindowInputFields
      [] t = "Layout" -> LayoutInputFields
      [] t = "Button" -> ButtonInputFields
      [] t = "Label" -> LabelInputFields
      [] t = "Separator" -> SeparatorInputFields
      [] t = "RichText" -> RichTextInputFields

\* A byte buffer: either one the tape parser rejects, or the tape it parses to.
Malformed == [malformed |-> TRUE, tape |-> Object(<<>>, <<>>)]
WellFormed(fs) == [malformed |-> FALSE, tape |-> Object(fs, <<>>)]

\* The inputs of a decoder: objects over its fields, and a bare scalar; for
\* Root, byte buffers.
InputsOf(t) ==
    IF t = "Root"
    THEN {Malformed} \cup {WellFormed(fs) : fs \in SeqUpTo(RootInputFields, MaxFields)}
    ELSE {Txt} \cup {Object(fs, <<>>) : fs \in SeqUpTo(InputFieldsOf(t), MaxFields)}

\* Where the decoded node sits in the document.
PathOf(t) ==
    CASE t = "Window" -> <<"window">>
      [] t = "RichText" -> <<"window", "title">>
      [] t = "Root" -> <<>>
      [] t = "Layout" -> <<"window", "layout">>
      [] t = "Button" -> <<"window", "button">>
      [] t = "Label" -> <<"window", "label">>
      [] t = "Separator" -> <<"window", "separator">>

BindIdle ==
    /\ data = NotAStruct
    /\ bindings = BindingDecls
    /\ log = [i \in BindingIds |-> 0]
    /\ fails = [i \in BindingIds |-> 0]
    /\ calls = 0
    /\ last = NoCall

InitParse ==
    /\ target \in Targets
    /\ input \in InputsOf(target)
    /\ result = <<>>
    /\ pc = "ready"
    /\ BindIdle
    /\ PassIdle
    /\ ThreadsIdle

Decoded(t, r) ==
    /\ pc = "ready"
    /\ target = t
    /\ result' = r
    /\ pc' = "done"
    /\ UNCHANGED <<target, input>>
    /\ UNCHANGED bindVars
    /\ UNCHANGED <<passVars, threads>>

ReadRoot == Decoded("Root", Root_read(input))
ReadWindow == Decoded("Window", Reader_read("Window", Reader(input, PathOf("Window"))))
ReadLayout == Decoded("Layout", Reader_read("Layout", Reader(input, PathOf("Layout"))))
ReadButton == Decoded("Button", Reader_read("Button", Reader(input, PathOf("Button"))))
ReadLabel == Decoded("Label", Reader_read("Label", Reader(input, PathOf("Label"))))
ReadSeparator ==
    Decoded("Separator", Reader_read("Separator", Reader(input, PathOf("Separator"))))
ReadRichText == Decoded("RichText", Reader_read("RichText", Reader(input, PathOf("RichText"))))

NextParse ==
    \/ ReadRoot
    \/ ReadWindow
    \/ ReadLayout
    \/ ReadButton
    \/ ReadLabel
    \/ ReadSeparator
    \/ ReadRichText

SpecParse == InitParse /\ [][NextParse]_vars

(***************************************************************************)
(* Value decoders on their own: one value node of the document is handed   *)
(* to the decoder of the type its position declares.                       *)
(***************************************************************************)
At == Unquoted(<<"@">>)
QuotedRef == Quoted(<<"@", "f">>)
Bare == Unquoted(<<"t">>)

BindingTypes == {"BindingRef", "Binding<bool>", "Binding<f32>", "Binding<String>", "Binding<Color>"}

BindingInputs == {At, RefF, QuotedRef, Quoted(<<"@">>), Yes, No, Five, Txt, Bare, Braces}

\* The widgets with scalar fields, the fields they cannot do without, and
\* their scalar fields.
WidgetTargets == {"Button", "Label", "Separator", "Layout"}

RequiredFields(t) == IF t \in {"Button", "Label"} THEN <<Field("text", Txt)>> ELSE <<>>

ScalarKeys(t) ==
    CASE t = "Button" -> {"visible", "small", "wrap", "frame", "selected", "clicked"}
      [] t = "Label" -> {"visible", "wrap", "truncate", "hovered"}
      [] t = "Separator" -> {"visible", "vertical", "spacing", "grow", "shrink"}
      [] t = "Layout" -> {"visible", "main_wrap", "main_justify", "cross_justify"}

PositionInputs == {RefF, QuotedRef, Yes, Five}

\* A widget with one scalar field set.
WidgetInputs(t) ==
    {Object(Append(RequiredFields(t), Field(k, v)), <<>>) :
        k \in ScalarKeys(t), v \in PositionInputs}

Seven == Unquoted(<<"7">>)
AnyWord == Unquoted(W_any)

\* The longest array handed to a tuple-like decoder.
MaxElems == 5

\* Arrays of numbers and of words, none to one more than Rounding takes.
RoundingInputs ==
    {Five, Seven, Quoted(<<"5">>), Unquoted(<<"-", "7">>), Unquoted(W_none), Quoted(W_none), Bare}
        \cup {Array(e) : e \in SeqUpTo({Five, Seven, Bare}, MaxElems)}

SizeTypes == {"Size<SIZE_ANY_IS_ZERO>", "Size<SIZE_ANY_IS_INF>", "Size<SIZE_ANY_DISALLOWED>"}

SizeInputs == {Five} \cup {Array(e) : e \in SeqUpTo({Five, AnyWord, Bare}, 3)}

EnumTypes == {"Alignment", "Direction", "Align", "RichTextStyle", "ColorName", "SenseType"}

EnumWords ==
    {<<"l", "e", "f", "t">>,
     <<"L", "e", "f", "t">>,
     <<"L", "E", "F", "T">>,
     <<"t", "o", "p", "_", "d", "o", "w", "n">>,
     <<"T", "o", "p", "_", "D", "o", "w", "n">>,
     <<"m", "i", "n">>,
     <<"M", "i", "n">>,
     <<"s", "m", "a", "l", "l">>,
     <<"S", "M", "A", "L", "L">>,
     <<"r", "e", "d">>,
     <<"R", "e", "d">>,
     <<"c", "l", "i", "c", "k">>,
     <<"C", "l", "i", "c", "k">>,
     <<"b", "o", "g", "u", "s">>}

EnumInputs == {Unquoted(w) : w \in EnumWords} \cup {Quoted(<<"l", "e", "f", "t">>), Braces}

\* Containers of one or two fields, with and without operators and trailing
\* values; arrays; scalars.
ObjectFields ==
    {Field("a", Five), Field("b", Txt), Field("a", Braces), FieldOp("a", "<", Five),
     FieldOp("b", ">", Five)}

ObjectInputs ==
    {Five, Txt, Braces, Array(<<Five>>), Array(<<Five, Txt>>)}
        \cup {Object(fs, rest) : fs \in SeqUpTo(ObjectFields, 2) \ {<<>>},
                                 rest \in {<<>>, <<Five>>, <<Braces, Five>>}}

AlignmentWords == {W_center, W_left, W_right, W_top, W_bottom}

\* Every pair of alignments, alone and with an offset; shorter arrays.
AnchorInputs ==
    {Five, Braces, Array(<<Unquoted(W_left)>>)}
        \cup {Array(<<Unquoted(a), Unquoted(b)>>) : a \in AlignmentWords, b \in AlignmentWords}
        \cup {Array(<<Unquoted(a), Unquoted(b), Five, Seven>>) :
                a \in AlignmentWords, b \in AlignmentWords}

\* A window or button property: its key and its value.
PropertyTargets == {"WindowProperty", "ButtonProperty"}

SizeKeys(t) ==
    IF t = "WindowProperty" THEN {"default_size", "min_size", "max_size", "fixed_size"}
    ELSE {"min_size"}

\* Sizes of none to three components: numbers, `any`, a word.
SizeValues == {Array(e) : e \in SeqUpTo({Five, Seven, AnyWord, Bare}, 3)}

\* What `auto_sized` may be handed: `{}`, scalars, containers that hold something.
EmptyValues ==
    {Braces, Five, Txt, Array(<<Five>>), Array(<<Five, Txt>>),
     Object(<<Field("a", Five)>>, <<>>), Object(<<Field("a", Five)>>, <<Five>>)}

PropertyInputs(t) ==
    {Field(k, v) : k \in SizeKeys(t), v \in SizeValues}
        \cup IF t = "WindowProperty" THEN {Field("auto_sized", v) : v \in EmptyValues} ELSE {}

\* The path of a property of the window, and of its button.
PropertyPath(t, key) ==
    IF t = "WindowProperty" THEN <<"window", key>> ELSE <<"window", "button", key>>

IntegerTypes == {"u8", "i8", "u16", "i16", "u32", "i32", "u64", "i64"}

\* Numerals at and next to the ends of every width, and words that are none.
IntegerWords ==
    {<<"0">>,
     <<"7">>,
     <<"1", "2", "7">>,
     <<"1", "2", "8">>,
     <<"-", "1", "2", "8">>,
     <<"-", "1", "2", "9">>,
     <<"2", "5", "5">>,
     <<"2", "5", "6">>,
     <<"-", "1">>,
     <<"3", "2", "7", "6", "7">>,
     <<"3", "2", "7", "6", "8">>,
     <<"-", "3", "2", "7", "6", "8">>,
     <<"-", "3", "2", "7", "6", "9">>,
     <<"6", "5", "5", "3", "5">>,
     <<"6", "5", "5", "3", "6">>,
     <<"2", "1", "4", "7", "4", "8", "3", "6", "4", "7">>,
     <<"2", "1", "4", "7", "4", "8", "3", "6", "4", "8">>,
     <<"-", "2", "1", "4", "7", "4", "8", "3", "6", "4", "8">>,
     <<"-", "2", "1", "4", "7", "4", "8", "3", "6", "4", "9">>,
     <<"4", "2", "9", "4", "9", "6", "7", "2", "9", "5">>,
     <<"4", "2", "9", "4", "9", "6", "7", "2", "9", "6">>,
     <<"9", "2", "2", "3", "3", "7", "2", "0", "3", "6", "8", "5", "4", "7", "7", "5", "8", "0", "7">>,
     <<"9", "2", "2", "3", "3", "7", "2", "0", "3", "6", "8", "5", "4", "7", "7", "5", "8", "0", "8">>,
     <<"-", "9", "2", "2", "3", "3", "7", "2", "0", "3", "6", "8", "5", "4", "7", "7", "5", "8", "0", "8">>,
     <<"-", "9", "2", "2", "3", "3", "7", "2", "0", "3", "6", "8", "5", "4", "7", "7", "5", "8", "0", "9">>,
     <<"1", "8", "4", "4", "6", "7", "4", "4", "0", "7", "3", "7", "0", "9", "5", "5", "1", "6", "1", "5">>,
     <<"1", "8", "4", "4", "6", "7", "4", "4", "0", "7", "3", "7", "0", "9", "5", "5", "1", "6", "1", "6">>,
     <<"0", "0", "7">>, <<"x">>, <<"-">>}

IntegerInputs == {Unquoted(w) : w \in IntegerWords} \cup {Quoted(<<"5">>), Braces}

ValueTargets ==
    BindingTypes \cup WidgetTargets \cup {"Rounding"} \cup SizeTypes \cup EnumTypes
        \cup IntegerTypes \cup {"read_object", "Anchor"} \cup PropertyTargets

ValueInputsOf(T) ==
    CASE T \in BindingTypes -> BindingInputs
      [] T \in WidgetTargets -> WidgetInputs(T)
      [] T = "Rounding" -> RoundingInputs
      [] T \in SizeTypes -> SizeInputs
      [] T \in EnumTypes -> EnumInputs
      [] T \in IntegerTypes -> IntegerInputs
      [] T = "read_object" -> ObjectInputs
      [] T = "Anchor" -> AnchorInputs
      [] T \in PropertyTargets -> PropertyInputs(T)

\* The node is the value of `key` in a window.
ValuePath == <<"window", "key">>

InitValue ==
    /\ target \in ValueTargets
    /\ input \in ValueInputsOf(target)
    /\ result = <<>>
    /\ pc = "ready"
    /\ BindIdle
    /\ PassIdle
    /\ ThreadsIdle

ReadValue(T) == Decoded(T, Reader_read(T, Reader(input, ValuePath)))

ReadBindingRef == ReadValue("BindingRef")
ReadBinding == \E T \in BindingTypes \ {"BindingRef"} : ReadValue(T)

ReadRounding == ReadValue("Rounding")
ReadSize == \E T \in SizeTypes : ReadValue(T)
ReadEnum == \E T \in EnumTypes : ReadValue(T)
ReadInteger == \E T \in IntegerTypes : ReadValue(T)
ReadAnchor == ReadValue("Anchor")
ReadWindowProperty ==
    Decoded("WindowProperty",
            WindowProperty_read_map_value(
                input.key, Reader(input.value, PropertyPath("WindowProperty", input.key))))
ReadButtonProperty ==
    Decoded("ButtonProperty",
            ButtonProperty_read_map_value(
                input.key, Reader(input.value, PropertyPath("ButtonProperty", input.key))))
ReadObject == Decoded("read_object", read_object(Reader(input, ValuePath)))

NextValue ==
    \/ ReadBindingRef
    \/ ReadBinding
    \/ ReadRounding
    \/ ReadSize
    \/ ReadEnum
    \/ ReadInteger
    \/ ReadObject
    \/ ReadAnchor
    \/ ReadWindowProperty
    \/ ReadButtonProperty
    \/ ReadButton
    \/ ReadLabel
    \/ ReadSeparator
    \/ ReadLayout

SpecValue == InitValue /\ [][NextValue]_vars

(***************************************************************************)
(* Decoding: what is claimed of it                                         *)
(***************************************************************************)
\* The decode of the input has returned.
Done(t) == pc = "done" /\ target = t

\* The fields of the input object, in document order.
InputFields == IF target = "Root" THEN input.tape.fields ELSE input.fields

\* The result is the given error.
Fails(res, variant, a, b, at) ==
    /\ res.kind = "Err"
    /\ res.variant = variant
    /\ res.a = a
    /\ res.b = b
    /\ res.at = at

NoOperators(fs) == \A k \in DOMAIN fs : fs[k].op = ""

\* Decoding, as type t, the object that holds just the fields fs.
DecodeFields(t, fs) ==
    IF t = "Root" THEN Root_read(WellFormed(fs))
    ELSE Reader_read(t, Reader(Object(fs, <<>>), PathOf(t)))

\* Every field of fs is accepted by the decoder of t: decoding the object
\* made of them succeeds, or fails only for a required field they lack.
Accepted(t, fs) ==
    LET x == DecodeFields(t, fs) IN
    IsOk(x) \/ (x.kind = "Err" /\ x.variant = "MissingField" /\ x.at = PathOf(t))

OrderedTargets == {"Window", "Layout"}

\* The keys that must stand above the content of a window or layout.
StructuralKeys(t) ==
    IF t = "Window"
    THEN {"title"} \cup {WindowProperty_FIELDS[k] : k \in DOMAIN WindowProperty_FIELDS}
    ELSE {"main_dir", "main_wrap", "main_align", "main_justify", "cross_align",
          "cross_justify", "visible"}

ContentKeys == {ContentWidget_FIELDS[k] : k \in DOMAIN ContentWidget_FIELDS}

ContentBefore(fs, j) == {i \in 1..(j - 1) : fs[i].key \in ContentKeys}

\* The last content key before position j.
LastContentBefore(fs, j) ==
    fs[CHOOSE i \in ContentBefore(fs, j) : \A h \in ContentBefore(fs, j) : h <= i].key

OrderingMessage(t) ==
    IF t = "Window" THEN "all window properties should be above content"
    ELSE "all layout properties should be above content"

\* Field j is a structural key that follows a content key, and the fields
\* before it were all accepted.
LateField(t, fs, j) ==
    /\ NoOperators(fs)
    /\ fs[j].key \in StructuralKeys(t)
    /\ ContentBefore(fs, j) # {}
    /\ Accepted(t, SubSeq(fs, 1, j - 1))

\* Field j would be accepted where it not late: its value decodes, and a
\* `title` is the first one.
DecodesAlone(t, fs, j) ==
    /\ Accepted(t, <<fs[j]>>)
    /\ \A i \in 1..(j - 1) : ~(fs[i].key = "title" /\ fs[j].key = "title")

OrderingError(t, fs, j) ==
    Fails(result, "Custom", OrderingMessage(t), <<fs[j].key, LastContentBefore(fs, j)>>,
          Append(PathOf(t), fs[j].key))

\* C1 (as stated): Root::read returns Ok or Err for every byte buffer, the
\* malformed ones included; it never panics, and an Err carries no window.
C1_NeverPanics ==
    Done("Root") => /\ result.kind \in {"Ok", "Err"}
                    /\ (result.kind = "Err" => result.val = <<>>)

NamedFields(t) ==
    CASE t = "Root" -> {"window"}
      [] t = "Window" -> {"title"}
      [] t = "RichText" -> {"text"}
      [] t = "Button" -> {"text", "visible", "small"}
      [] t = "Label" -> {"text", "visible"}
      [] t = "Separator" -> {"visible"}
      [] t = "Layout" -> {"main_dir", "main_wrap", "main_align", "main_justify",
                          "cross_align", "cross_justify"}

IsObjectInput == IF target = "Root" THEN ~input.malformed ELSE input.t = "Object"

\* C3 (as stated): the second occurrence of a named field fails with
\* DuplicateField naming it, in every object decoder.
C3_DuplicateIsError ==
    (pc = "done" /\ IsObjectInput) =>
        \A j \in DOMAIN InputFields : \A i \in 1..(j - 1) :
            ( /\ InputFields[j].key \in NamedFields(target)
              /\ InputFields[i].key = InputFields[j].key
              /\ NoOperators(InputFields)
              /\ Accepted(target, SubSeq(InputFields, 1, j - 1)) )
            => Fails(result, "DuplicateField", InputFields[j].key, <<>>,
                     Append(PathOf(target), InputFields[j].key))

\* C4 (as stated): a key is rejected as unknown only if it is outside the
\* accepted-name list the error carries.
C4_ListedKeysAccepted ==
    (pc = "done" /\ IsObjectInput /\ result.kind = "Err"
       /\ result.variant = "UnknownField"
       /\ Len(result.at) = Len(PathOf(target)) + 1)
    => ~InSeq(result.a, result.b)

RootPlainWindow(fs, k) == fs[k].key = "window" /\ fs[k].op = ""

RootWindowDecodes(fs, k) == IsOk(Reader_read("Window", Reader(fs[k].value, <<"window">>)))

\* C5 (amended): Root::read takes the top-level keys in order and stops at the
\* first error. No key at all is MissingField(window); a first key other than
\* `window` is UnknownField; a first `window` with an operator is
\* UnexpectedOperator; a first plain `window` that does not decode is its own
\* error; after a first plain `window` that decodes, a second plain `window`
\* is DuplicateField(window) and any other key is UnknownField; one plain
\* `window` that decodes, alone, is that window.
C5_FirstOffenceWins ==
    (Done("Root") /\ ~input.malformed) =>
        LET fs == InputFields
            n == Len(fs)
        IN
        /\ n = 0 => Fails(result, "MissingField", "window", <<>>, <<>>)
        /\ (n >= 1 /\ fs[1].key # "window")
              => Fails(result, "UnknownField", fs[1].key, Root_FIELDS, <<fs[1].key>>)
        /\ (n >= 1 /\ fs[1].key = "window" /\ fs[1].op # "")
              => Fails(result, "UnexpectedOperator", fs[1].op, <<>>, <<"window">>)
        /\ (n >= 1 /\ RootPlainWindow(fs, 1) /\ ~RootWindowDecodes(fs, 1))
              => (result.kind = "Err"
                  /\ result = Reader_read("Window", Reader(fs[1].value, <<"window">>)))
        /\ (n >= 2 /\ RootPlainWindow(fs, 1) /\ RootWindowDecodes(fs, 1)
                   /\ RootPlainWindow(fs, 2))
              => Fails(result, "DuplicateField", "window", <<>>, <<"window">>)
        /\ (n >= 2 /\ RootPlainWindow(fs, 1) /\ RootWindowDecodes(fs, 1)
                   /\ fs[2].key # "window")
              => Fails(result, "UnknownField", fs[2].key, Root_FIELDS, <<fs[2].key>>)
        /\ (n = 1 /\ RootPlainWindow(fs, 1) /\ RootWindowDecodes(fs, 1))
              => (result.kind = "Ok"
                  /\ result.val = Reader_read("Window", Reader(fs[1].value, <<"window">>)).val)

\* A document with two plain `window` keys, the first of which decodes, has
\* been read.
C5_Witness ==
    /\ Done("Root")
    /\ ~input.malformed
    /\ Len(InputFields) >= 2
    /\ RootPlainWindow(InputFields, 1)
    /\ RootWindowDecodes(InputFields, 1)
    /\ RootPlainWindow(InputFields, 2)
    /\ result.variant = "DuplicateField"

WindowKeyCount(fs) == Cardinality({k \in DOMAIN fs : fs[k].key = "window"})

\* C5 (as stated): two `window` keys are DuplicateField(window), no `window`
\* key is MissingField(window), any other top-level key is UnknownField.
C5_ExactlyOneWindow ==
    (Done("Root") /\ ~input.malformed) =>
        LET fs == InputFields
            others == {k \in DOMAIN fs : fs[k].key # "window"}
        IN
        /\ (others = {} /\ WindowKeyCount(fs) >= 2)
              => Fails(result, "DuplicateField", "window", <<>>, <<"window">>)
        /\ (others = {} /\ WindowKeyCount(fs) = 0)
              => Fails(result, "MissingField", "window", <<>>, <<>>)
        /\ others # {} => (result.kind = "Err" /\ result.variant = "UnknownField")

(***************************************************************************)
(* Binding resolution: what is claimed of it                               *)
(***************************************************************************)
ResolveOps == {"resolve_ref", "resolve_mut", "resolve_list_ref", "resolve_list_mut"}

ListOps == {"resolve_list_ref", "resolve_list_mut"}

\* The type an operation looks for: a list on the list paths, T otherwise.
WantedType(op, b) == IF op \in ListOps THEN "List" ELSE b.ty

\* The data object is a struct with a field of that name and run-time type.
HasTypedField(d, name, ty) ==
    d.isStruct /\ name \in DOMAIN d.fields /\ d.fields[name].ty = ty

\* The data object has no field of that name.
LacksField(d, name) == ~d.isStruct \/ name \notin DOMAIN d.fields \/ d.fields[name].ty = "none"

BindingOps == {"binding_resolve_ref", "binding_resolve"}

\* The step is a resolver call; last' describes it.
CallStep == calls' = calls + 1

\* C6: per BindingRef instance the warning is logged on the first failing
\* resolve call and on no other: at most one warning per instance, the warned
\* flag never returns to false, and a call on a missing or mistyped field
\* returns an error whether or not the instance has warned already.
C6_WarnOnce ==
    [][\A i \in BindingIds :
          /\ bindings[i].warned => bindings'[i].warned
          /\ log'[i] <= 1
          /\ log'[i] - log[i] = IF fails[i] = 0 /\ fails'[i] > 0 THEN 1 ELSE 0
          /\ bindings'[i].warned = (fails'[i] > 0)
          /\ (/\ CallStep
              /\ last'.op \in ResolveOps
              /\ last'.b = i
              /\ ~HasTypedField(data, bindings[i].name, WantedType(last'.op, bindings[i])))
             => last'.r.kind = "Err"]_vars

\* A binding has failed twice and one warning was logged for it.
C6_Witness == \E i \in BindingIds : fails[i] >= 2 /\ log[i] = 1 /\ last.r.kind = "Err"

\* C7: no result is cached: every resolve call, also one on a binding that has
\* failed and warned before, succeeds exactly when the data object of that
\* call has the typed field, and then returns the field's current value.
C7_NoCaching ==
    last.op \in ResolveOps =>
        LET b == bindings[last.b]
            ty == WantedType(last.op, b)
        IN  IF HasTypedField(last.seen, b.name, ty)
            THEN last.r.kind = "Ok" /\ last.r.val = last.seen.fields[b.name]
            ELSE last.r.kind = "Err"

\* A binding that failed before resolves to the present value of the field.
C7_Witness ==
    /\ last.op = "resolve_ref"
    /\ fails[last.b] > 0
    /\ bindings[last.b].warned
    /\ last.r.kind = "Ok"
    /\ last.r.val = [ty |-> "bool", val |-> 1]

C9_MutAfterCheck ==
    /\ last.r.kind # "Panic"
    /\ last.op \in {"resolve_mut", "resolve_list_mut"} =>
          LET b == bindings[last.b]
              chk == IF last.op = "resolve_mut"
                     THEN ResolveRefCheck(b, last.seen)
                     ELSE ResolveListRefCheck(b, last.seen)
          IN  IF chk.kind = "Err"
              THEN last.r = chk
              ELSE /\ last.r.kind = "Ok"
                   /\ last.r.field = b.name
                   /\ last.r.val = last.seen.fields[b.name]

\* A mutable resolution went through.
C9_Witness ==
    /\ last.op = "resolve_mut"
    /\ last.r.kind = "Ok"
    /\ last.r.field = bindings[last.b].name

\* C10: resolving a binding whose field the data object lacks returns an error
\* without panicking, leaves the data object as it was, and changes nothing
\* of the document's bindings but that binding's warned flag; Response::process
\* writes no trigger for such a binding and does not create the field.
C10_MissingFieldFrame ==
    [][CallStep =>
         /\ \A i \in BindingIds :
               (last'.op \in ResolveOps /\ last'.b = i /\ LacksField(data, bindings[i].name)) =>
                   /\ last'.r.kind = "Err"
                   /\ data' = data
                   /\ \A j \in BindingIds \ {i} : bindings'[j] = bindings[j]
                   /\ bindings'[i] = [bindings[i] EXCEPT !.warned = TRUE]
         /\ last'.op = "process" =>
               /\ last'.r.kind = "Ok"
               /\ data'.isStruct = data.isStruct
               /\ \A k \in DOMAIN ResponseProps :
                     LET i == ResponseProps[k].b IN
                     LacksField(data, bindings[i].name) =>
                         /\ data'.fields[bindings[i].name] = data.fields[bindings[i].name]
                         /\ bindings'[i] = [bindings[i] EXCEPT !.warned = TRUE]
               /\ \A j \in BindingIds :
                     (\A k \in DOMAIN ResponseProps : ResponseProps[k].b # j)
                         => bindings'[j] = bindings[j]]_vars

\* Response::process met a trigger whose field is missing and went on to
\* write the other trigger.
C10_Witness ==
    /\ last.op = "process"
    /\ last.seen.isStruct
    /\ last.seen.fields["clicked"].ty = "none"
    /\ bindings[2].warned
    /\ last.seen.fields["flag"] = [ty |-> "Trigger", val |-> 0]
    /\ data.fields["flag"] = [ty |-> "Trigger", val |-> 1]
    /\ data.fields["clicked"] = NoField

\* C11: for a Binding::Value(v), resolve and resolve_ref return Ok(v) for
\* every data object: the result is the same for any two data objects, the
\* data object is not read or changed, and no warning is logged.
C11_ValueIgnoresData ==
    [][(CallStep /\ last'.op \in BindingOps /\ last'.bnd.tag = "Value") =>
         /\ last'.r = ROk("", last'.bnd.value)
         /\ UNCHANGED <<data, bindings, log, fails>>
         /\ \A d \in DataObjects :
               LET wd == [World EXCEPT !.data = d]
                   c == IF last'.op = "binding_resolve"
                        THEN Binding_resolve(wd, last'.bnd)
                        ELSE Binding_resolve_ref(wd, last'.bnd)
               IN  c.r = last'.r /\ c.w = wd]_vars

\* A literal was resolved against a data object whose field `flag` holds a
\* different value of the same type.
C11_Witness ==
    /\ last.op \in BindingOps
    /\ last.bnd = Binding_Value([ty |-> "bool", val |-> 1])
    /\ last.r.kind = "Ok"
    /\ last.seen.isStruct
    /\ last.seen.fields["flag"] = [ty |-> "bool", val |-> 0]

(***************************************************************************)
(* Value decoders: what is claimed of them                                 *)
(***************************************************************************)
\* The input is an unquoted scalar that begins with `@`.
LooksLikeRef(v) == v.t = "Unquoted" /\ Len(v.s) > 0 /\ Head(v.s) = "@"

IsRef(res) == IsOk(res) /\ res.val.b = "Ref"

\* C12: a Binding<T> or BindingRef<T> field decoded from a scalar that begins
\* with `@` is a named reference only when a non-empty name follows the `@`;
\* `@` alone makes the decode fail: it is neither a reference with an empty
\* name nor a literal T.
C12_EmptyNameRejected ==
    (pc = "done" /\ target \in BindingTypes /\ LooksLikeRef(input)) =>
        /\ IsRef(result) => Len(result.val.name) > 0
        /\ Len(input.s) = 1 => result.kind = "Err"

\* The scalar has the form `@name`.
RefForm(v) == v.t \in {"Quoted", "Unquoted"} /\ Len(v.s) > 1 /\ Head(v.s) = "@"

\* The value of the last field of an object.
LastValue(v) == v.fields[Len(v.fields)].value

\* C13: in every scalar value position (plain flags and numbers of the
\* widgets included, quoted as well as unquoted scalars) a scalar of the form
\* `@name` decodes successfully to a reference to the field `name`, and every
\* scalar not of that form decodes as a literal.
C13_EveryScalarPositionBinds ==
    /\ (pc = "done" /\ target \in WidgetTargets /\ RefForm(LastValue(input))) => IsOk(result)
    /\ (pc = "done" /\ target \in BindingTypes /\ is_scalar(Reader(input, ValuePath))) =>
          /\ RefForm(input) => (IsRef(result) /\ result.val.name = Tail(input.s))
          /\ (~RefForm(input) /\ IsOk(result)) => ~IsRef(result)

\* The number a numeral stands for.
NumberOf(v) == to_f64(v.s).val

AllNumbers(e) == \A k \in DOMAIN e : e[k].t = "Unquoted" /\ IsOk(to_f64(e[k].s))

\* The corners of the CSS-style shorthand: a missing top-right and
\* bottom-right are the top-left, a missing bottom-left is the top-right.
Shorthand(e) ==
    LET nw == NumberOf(e[1])
        ne == IF Len(e) >= 2 THEN NumberOf(e[2]) ELSE nw
    IN  [nw |-> nw, ne |-> ne,
         se |-> IF Len(e) >= 3 THEN NumberOf(e[3]) ELSE nw,
         sw |-> IF Len(e) >= 4 THEN NumberOf(e[4]) ELSE ne]

\* C14: Rounding decodes from an array of 1, 2, 3 or 4 numbers, the corners
\* missing at the end defaulted from earlier ones; only an empty array or one
\* of more than 4 elements fails with InvalidLength.
C14_RoundingShorthand ==
    (Done("Rounding") /\ input.t = "Array") =>
        LET e == input.rest IN
        /\ (Len(e) \in 1..4 /\ AllNumbers(e)) => (IsOk(result) /\ result.val = Shorthand(e))
        /\ (result.kind = "Err" /\ result.variant = "InvalidLength") = (Len(e) \notin 1..4)

\* C15: a Size decoded in the any-disallowed mode fails with InvalidValue
\* whenever either of its two components is the literal `any`.
C15_AnyIsInvalidValue ==
    (/\ Done("Size<SIZE_ANY_DISALLOWED>")
     /\ input.t = "Array"
     /\ Len(input.rest) = 2
     /\ \E k \in 1..2 : input.rest[k] = AnyWord)
        => (result.kind = "Err" /\ result.variant = "InvalidValue")

UpperLetters ==
    <<"A", "B", "C", "D", "E", "F", "G", "H", "I", "J", "K", "L", "M",
      "N", "O", "P", "Q", "R", "S", "T", "U", "V", "W", "X", "Y", "Z">>

LowerLetters ==
    <<"a", "b", "c", "d", "e", "f", "g", "h", "i", "j", "k", "l", "m",
      "n", "o", "p", "q", "r", "s", "t", "u", "v", "w", "x", "y", "z">>

\* A word with its capital letters made small.
AsciiLower(w) ==
    [k \in DOMAIN w |->
        IF InSeq(w[k], UpperLetters)
        THEN LowerLetters[CHOOSE j \in DOMAIN UpperLetters : UpperLetters[j] = w[k]]
        ELSE w[k]]

VariantsOf(T) ==
    CASE T = "Alignment" -> Alignment_VARIANTS
      [] T = "Direction" -> Direction_VARIANTS
      [] T = "Align" -> Align_VARIANTS
      [] T = "RichTextStyle" -> RichTextStyle_VARIANTS
      [] T = "ColorName" -> ColorName_VARIANTS
      [] T = "SenseType" -> SenseType_VARIANTS

\* C16: every enumeration decoder matches the scalar against its snake_case
\* variant names ignoring letter case, so that `left`, `Left` and `LEFT` are
\* the same variant; a scalar that matches no variant fails with
\* UnknownVariant listing all accepted names.
C16_EnumIgnoresCase ==
    (pc = "done" /\ target \in EnumTypes /\ is_scalar(Reader(input, ValuePath))) =>
        IF InSeq(AsciiLower(input.s), VariantsOf(target))
        THEN IsOk(result) /\ result.val = AsciiLower(input.s)
        ELSE Fails(result, "UnknownVariant", input.s, VariantsOf(target), ValuePath)

\* C17: an integer of width 8, 16, 32 or 64, signed or unsigned, decoded from
\* a numeral outside the target type's range (a negative numeral for an
\* unsigned target and a numeral beyond the 64-bit range included) fails with
\* InvalidValue carrying the numeral and the target type name; every in-range
\* numeral decodes to exactly that value.
C17_OutOfRangeIsInvalidValue ==
    (/\ pc = "done"
     /\ target \in IntegerTypes
     /\ is_scalar(Reader(input, ValuePath))
     /\ IsNumeral(input.s)) =>
        IF InRange(Numeral(input.s), target)
        THEN IsOk(result) /\ result.val = Numeral(input.s)
        ELSE Fails(result, "InvalidValue", Format(Numeral(input.s)), <<target>>, ValuePath)

IsContainer(v) == v.t \in {"Object", "Array"}

HasOperator(v) == \E k \in DOMAIN v.fields : v.fields[k].op # ""

\* The result is every (key, child reader) pair of the input, once, in
\* document order.
YieldsPairs(res, v) ==
    /\ IsOk(res)
    /\ Len(res.val) = Len(v.fields)
    /\ \A k \in DOMAIN v.fields :
          res.val[k] = [key |-> v.fields[k].key,
                        value |-> Reader(v.fields[k].value, Append(ValuePath, v.fields[k].key))]

ContainerPaths ==
    {PathOf(target)} \cup
    {Append(PathOf(target), InputFields[k].key) :
        k \in {j \in DOMAIN InputFields : IsContainer(InputFields[j].value)}}

\* The paths of the direct fields written with an operator.
OperatorPaths ==
    {Append(PathOf(target), InputFields[k].key) :
        k \in {j \in DOMAIN InputFields : InputFields[j].op # ""}}

\* C19: every Error of a parse carries in `at` the path of the offending
\* node, a child's path being its parent's followed by its key: an error
\* about one field (UnexpectedOperator, UnknownField, DuplicateField) carries
\* that field's own path, and an error about a container (MissingField,
\* InvalidLength, UnexpectedRemainder) carries the container's path.
C19_ErrorAtOffendingNode ==
    (pc = "done" /\ target \in Targets /\ IsObjectInput /\ result.kind = "Err") =>
        /\ SubSeq(result.at, 1, Len(PathOf(target))) = PathOf(target)
        /\ result.variant = "UnexpectedOperator" => result.at \in OperatorPaths
        /\ result.variant \in {"UnknownField", "DuplicateField"} =>
              /\ Len(result.at) > Len(PathOf(target))
              /\ result.at[Len(result.at)] = result.a
        /\ result.variant \in {"MissingField", "InvalidLength", "UnexpectedRemainder"} =>
              result.at \in ContainerPaths

(***************************************************************************)
(* Anchors                                                                 *)
(***************************************************************************)
Horizontal == {W_center, W_left, W_right}
Vertical == {W_center, W_top, W_bottom}

\* The input is `{ a b }` or `{ a b x y }` over the five alignments.
IsAlignmentPair(v) ==
    /\ v.t = "Array"
    /\ Len(v.rest) \in {2, 4}
    /\ \A k \in 1..2 : v.rest[k].t = "Unquoted" /\ v.rest[k].s \in AlignmentWords

\* One of the two is a horizontal alignment and the other a vertical one.
Decomposes(a, b) == (a \in Horizontal /\ b \in Vertical) \/ (a \in Vertical /\ b \in Horizontal)

\* The same anchor with its two alignments exchanged.
Exchanged(v) == [v EXCEPT !.rest[1] = v.rest[2], !.rest[2] = v.rest[1]]

\* C20: for any two alignments a, b, `{ a b }` decodes if and only if the
\* pair decomposes into a horizontal and a vertical component in some order;
\* then `{ a b }` and `{ b a }` yield the same Align2 and no unreachable arm
\* is reached; every other pair fails with an error.
C20_AnchorPairs ==
    (Done("Anchor") /\ IsAlignmentPair(input)) =>
        LET a == input.rest[1].s
            b == input.rest[2].s
            other == Reader_read("Anchor", Reader(Exchanged(input), ValuePath))
        IN  /\ result.kind # "Panic"
            /\ IsOk(result) = Decomposes(a, b)
            /\ ~Decomposes(a, b) => result.kind = "Err"
            /\ IsOk(result) => (IsOk(other) /\ other.val.align = result.val.align)

\* `{ center left }`: the centre goes to the vertical axis.
C20_Witness ==
    /\ Done("Anchor")
    /\ IsAlignmentPair(input)
    /\ input.rest[1].s = W_center
    /\ input.rest[2].s = W_left
    /\ IsOk(result)
    /\ result.val.align = <<"Min", "Center">>

(***************************************************************************)
(* Rounding, Size and Empty                                                *)
(***************************************************************************)
\* The array `{ v v v v }`.
FourOf(v) == Array(<<v, v, v, v>>)

\* C21: for every number n, `rounding = n` and `rounding = { n n n n }`
\* produce the same four corners, each of them n, and the scalar `none`,
\* quoted or unquoted, produces four corners equal to zero.
C21_RoundingScalarForm ==
    (Done("Rounding") /\ is_scalar(Reader(input, ValuePath))) =>
        /\ IsOk(to_f64(input.s)) =>
              /\ IsOk(result)
              /\ result = Reader_read("Rounding", Reader(FourOf(Unquoted(input.s)), ValuePath))
              /\ \A c \in {"nw", "ne", "se", "sw"} : result.val[c] = NumberOf(input)
        /\ input.s = W_none =>
              (IsOk(result) /\ \A c \in {"nw", "ne", "se", "sw"} : result.val[c] = 0)

\* `rounding = 7` was decoded.
C21_Witness ==
    /\ Done("Rounding")
    /\ input = Seven
    /\ IsOk(result)
    /\ result.val.sw = 7

\* What a size key makes of `any`: 0, infinity, or nothing at all.
AnyOf(t, key) ==
    CASE key = "min_size" -> <<0>>
      [] key = "max_size" -> <<"inf">>
      [] key \in {"default_size", "fixed_size"} -> <<>>

IsNumberToken(v) == v.t = "Unquoted" /\ IsOk(to_f64(v.s))

\* A component as the key has it: the number, or what `any` stands for.
ComponentOf(t, key, v) == IF v = AnyWord THEN AnyOf(t, key)[1] ELSE NumberOf(v)

\* C22: window and button min_size map an `any` component to 0, window
\* max_size maps it to infinity, window default_size and fixed_size do not
\* accept it; each axis is handled on its own, and a number is passed
\* through unchanged in every mode.
C22_AnySentinel ==
    (/\ pc = "done"
     /\ target \in PropertyTargets
     /\ input.key \in SizeKeys(target)
     /\ Len(input.value.rest) = 2
     /\ \A k \in 1..2 : input.value.rest[k] = AnyWord \/ IsNumberToken(input.value.rest[k])) =>
        LET e == input.value.rest
            any == \E k \in 1..2 : e[k] = AnyWord
        IN  IF any /\ AnyOf(target, input.key) = <<>>
            THEN result.kind = "Err"
            ELSE /\ IsOk(result)
                 /\ result.val.v = <<ComponentOf(target, input.key, e[1]),
                                     ComponentOf(target, input.key, e[2])>>

\* `max_size = { any 7 }`: the width is unbounded, the height is 7.
C22_Witness ==
    /\ Done("WindowProperty")
    /\ input.key = "max_size"
    /\ input.value = Array(<<AnyWord, Seven>>)
    /\ IsOk(result)
    /\ result.val.v = <<"inf", 7>>

\* C27: the Empty value of the window property `auto_sized` decodes only
\* from the empty container `{}`: a scalar is rejected with InvalidType, and
\* an object or array that holds something is rejected as well.
C27_OnlyEmptyBraces ==
    (Done("WindowProperty") /\ input.key = "auto_sized") =>
        /\ IsOk(result) = (input.value = Braces)
        /\ ~IsContainer(input.value) => result.variant = "InvalidType"

(***************************************************************************)
(* The minimal document                                                    *)
(***************************************************************************)
HasKey(fs, key) == \E k \in DOMAIN fs : fs[k].key = key

\* The document `window = { title = "t" }` for a quoted text t.
IsMinimalDocument(v) ==
    /\ ~v.malformed
    /\ Len(v.tape.fields) = 1
    /\ v.tape.fields[1].key = "window"
    /\ v.tape.fields[1].op = ""
    /\ v.tape.fields[1].value.t = "Object"
    /\ Len(v.tape.fields[1].value.fields) = 1
    /\ v.tape.fields[1].value.fields[1].key = "title"
    /\ v.tape.fields[1].value.fields[1].value.t = "Quoted"

TitleText(v) == v.tape.fields[1].value.fields[1].value.s

\* The window object lacks nothing but its title: with a title put first
\* it decodes.
LacksOnlyTitle(v) ==
    /\ v.t = "Object"
    /\ ~HasKey(v.fields, "title")
    /\ IsOk(Reader_read("Window",
                        Reader(Object(<<Field("title", Txt)>> \o v.fields, v.rest),
                               PathOf("Window"))))

\* C23, as stated: the minimal document decodes to a window with no
\* properties, no content and the literal title; every window object with no
\* `title` fails with MissingField(title).
C23_AsStated ==
    (Done("Window") /\ input.t = "Object" /\ ~HasKey(input.fields, "title")) =>
        Fails(result, "MissingField", "title", <<>>, PathOf("Window"))

\* C23: for any title text t the document `window = { title = "t" }` decodes
\* to a window with no properties, no content and a title that is the
\* literal t without rich-text properties; a window object that lacks only
\* its `title` fails with MissingField(title).
C23_MinimalDocument ==
    /\ (Done("Root") /\ IsMinimalDocument(input)) =>
          result = POk([title |-> [text |-> [b |-> "Value", v |-> TitleText(input)],
                                   props |-> <<>>],
                        props |-> <<>>, content |-> <<>>])
    /\ (Done("Window") /\ LacksOnlyTitle(input)) =>
          Fails(result, "MissingField", "title", <<>>, PathOf("Window"))

\* A window with a property and a button, and no title.
C23_Witness ==
    /\ Done("Window")
    /\ LacksOnlyTitle(input)
    /\ Len(input.fields) = 2
    /\ input.fields[1].key = "resizable"
    /\ input.fields[2].key = "button"
    /\ result.variant = "MissingField"

\* C28: in a four-element Rounding array every element must be a number: an
\* element that is no number, at any of the four positions, makes the decode
\* fail, and no corner is filled from another corner instead.
C28_EveryElementNumeric ==
    (Done("Rounding") /\ input.t = "Array" /\ Len(input.rest) = 4
        /\ ~AllNumbers(input.rest)) => result.kind = "Err"

(***************************************************************************)
(* Several threads resolving one BindingRef                                *)
(*                                                                         *)
(* resolve_ref takes &self and &data: the calls share the binding and the  *)
(* data object, and only the warned flag is written, by one atomic         *)
(* fetch_or.  A call is the closure, the fetch_or, the warning and the     *)
(* return, and the calls of different threads interleave between these.    *)
(***************************************************************************)
NThreads == 3

Threads == 1..NThreads

InitThreads ==
    /\ data \in DataObjects
    /\ bindings = BindingDecls
    /\ log = [i \in BindingIds |-> 0]
    /\ fails = [i \in BindingIds |-> 0]
    /\ calls = 0
    /\ last = NoCall
    /\ \E i \in BindingIds :
          threads = [t \in Threads |-> [pc |-> "call", b |-> i, old |-> FALSE, r |-> RErr("")]]
    /\ ParseIdle
    /\ PassIdle

\* The closure of resolve_ref: Ok is returned as it is, Err goes to map_err.
ThreadCheck(t) ==
    /\ threads[t].pc = "call"
    /\ LET r == ResolveRefCheck(bindings[threads[t].b], data)
       IN  threads' = [threads EXCEPT ![t].r = r,
                          ![t].pc = IF r.kind = "Err" THEN "map_err" ELSE "returned"]
    /\ UNCHANGED <<bindVars, parseVars, passVars>>

\* warned.fetch_or(true, Relaxed): one atomic read-modify-write.
ThreadFetchOr(t) ==
    /\ threads[t].pc = "map_err"
    /\ LET old == bindings[threads[t].b].warned
       IN  /\ bindings' = [bindings EXCEPT ![threads[t].b].warned = FetchOrWarned(old)]
           /\ threads' = [threads EXCEPT ![t].old = old,
                             ![t].pc = IF LogsWarning(old) THEN "warn" ELSE "return"]
    /\ UNCHANGED <<data, log, fails, calls, last, parseVars, passVars>>

\* bevy::log::warn!
ThreadWarn(t) ==
    /\ threads[t].pc = "warn"
    /\ log' = [log EXCEPT ![threads[t].b] = @ + 1]
    /\ threads' = [threads EXCEPT ![t].pc = "return"]
    /\ UNCHANGED <<data, bindings, fails, calls, last, parseVars, passVars>>

\* map_err hands the error on to the caller.
ThreadReturn(t) ==
    /\ threads[t].pc = "return"
    /\ fails' = [fails EXCEPT ![threads[t].b] = @ + 1]
    /\ threads' = [threads EXCEPT ![t].pc = "returned"]
    /\ UNCHANGED <<data, bindings, log, calls, last, parseVars, passVars>>

NextThreads ==
    \/ \E t \in Threads : ThreadCheck(t)
    \/ \E t \in Threads : ThreadFetchOr(t)
    \/ \E t \in Threads : ThreadWarn(t)
    \/ \E t \in Threads : ThreadReturn(t)

SpecThreads == InitThreads /\ [][NextThreads]_vars

\* The binding the threads share, and whether resolving it fails.
SharedRef == threads[1].b

AllFail == ResolveRefCheck(bindings[SharedRef], data).kind = "Err"

AfterFetchOr == {"warn", "return", "returned"}

\* The threads whose fetch_or returned false.
SawFalse == {t \in Threads : threads[t].pc \in AfterFetchOr /\ ~threads[t].old}

AllReturned == \A t \in Threads : threads[t].pc = "returned"

\* C29: when several threads resolve the same BindingRef concurrently and
\* all fail, then under every interleaving exactly one call sees false from
\* fetch_or and logs the warning, and every call returns its error.
C29_OneWarning ==
    (threads # <<>> /\ AllFail) =>
        /\ Cardinality(SawFalse) <= 1
        /\ log[SharedRef] <= Cardinality(SawFalse)
        /\ \A t \in Threads :
              threads[t].pc = "returned" =>
                  threads[t].r = ResolveRefCheck(bindings[SharedRef], data)
        /\ AllReturned =>
              /\ Cardinality(SawFalse) = 1
              /\ log[SharedRef] = 1
              /\ fails[SharedRef] = NThreads

\* All calls have failed; the second thread logged the warning, and the
\* first returned before it did.
C29_Witness ==
    /\ threads # <<>>
    /\ AllFail
    /\ AllReturned
    /\ SawFalse = {2}
    /\ log[SharedRef] = 1

(***************************************************************************)
(* The render pass of src/model.rs                                         *)
(*                                                                         *)
(* Window::show hands the content to Content::show, which shows the        *)
(* widgets one after the other; Layout::show shows its own content inside  *)
(* ui.with_layout before the next sibling.  The recursion is kept as the   *)
(* list `todo` of the widgets still to show: a layout puts its content in  *)
(* front of it.  Each step is the `show` of one widget, whole.             *)
(***************************************************************************)
Tint == [ty |-> "Color", val |-> 1]

\* The data objects of a frame: `flag`, `clicked` and `tint` may be there
\* or not, with the type a binding expects or with another.
ShowDataObjects ==
    {NotAStruct} \cup
    {[isStruct |-> TRUE, fields |-> [flag |-> f, clicked |-> c, tint |-> t]] :
        f \in {NoField, [ty |-> "bool", val |-> 0], [ty |-> "bool", val |-> 1],
               [ty |-> "Trigger", val |-> 0]},
        c \in {NoField, [ty |-> "Trigger", val |-> 0]},
        t \in {NoField, Tint}}

\* The BindingRef instances of the document below.
ShowBindingDecls ==
    << [name |-> "flag",    ty |-> "bool",    warned |-> FALSE],   \* button: visible
       [name |-> "tint",    ty |-> "Color",   warned |-> FALSE],   \* button: fill
       [name |-> "flag",    ty |-> "Trigger", warned |-> FALSE],   \* button: hovered
       [name |-> "clicked", ty |-> "Trigger", warned |-> FALSE],   \* button: clicked
       [name |-> "flag",    ty |-> "bool",    warned |-> FALSE],   \* layout: visible
       [name |-> "clicked", ty |-> "Trigger", warned |-> FALSE],   \* inner label: clicked
       [name |-> "flag",    ty |-> "bool",    warned |-> FALSE] >> \* separator: visible

ShowBindingIds == DOMAIN ShowBindingDecls

VisibleYes == Binding_Value([ty |-> "bool", val |-> 1])
VisibleNo == Binding_Value([ty |-> "bool", val |-> 0])
Literal(n) == Binding_Value([ty |-> "String", val |-> n])

Prop(key, bnd) == [key |-> key, bnd |-> bnd]
Trig(ev, b) == [ev |-> ev, b |-> b]

Widget(id, kind, visible, text, props, response, content) ==
    [id |-> id, kind |-> kind, visible |-> visible, text |-> text,
     props |-> props, response |-> response, content |-> content]

\* window = { title = "t"
\*   button = { text = "b" visible = v1 fill = @tint wrap = yes
\*              hovered = @flag clicked = @clicked }
\*   layout = { visible = v2
\*     label = { text = "l" clicked = @clicked }
\*     separator = { visible = v4 } }
\*   label = "end" }
Document(v1, v2, v4) ==
    << Widget(1, "Button", v1, Literal(1),
              <<Prop("fill", Binding_Ref(2)), Prop("wrap", NoBinding)>>,
              <<Trig("hovered", 3), Trig("clicked", 4)>>, <<>>),
       Widget(2, "Layout", v2, NoBinding, <<>>, <<>>,
              << Widget(3, "Label", NoBinding, Literal(2), <<Prop("wrap", NoBinding)>>,
                        <<Trig("clicked", 6)>>, <<>>),
                 Widget(4, "Separator", v4, NoBinding, <<Prop("spacing", NoBinding)>>,
                        <<>>, <<>>) >>),
       Widget(5, "Label", NoBinding, Literal(3), <<>>, <<>>, <<>>) >>

Documents ==
    {Document(v1, v2, v4) :
        v1 \in {NoBinding, VisibleYes, VisibleNo, Binding_Ref(1)},
        v2 \in {NoBinding, VisibleYes, VisibleNo, Binding_Ref(5)},
        v4 \in {NoBinding, Binding_Ref(7)}}

\* One thing the pass did: widget, what, the property or event, the
\* BindingRef involved (0 if none), and for a resolve whether it was Ok.
Step(id, what, key, b, ok) == [w |-> id, what |-> what, key |-> key, b |-> b, ok |-> ok]

Note(w, id, what, key, b, ok) == [w EXCEPT !.trace = Append(@, Step(id, what, key, b, ok))]

\* x is evaluated once, and Then is applied to its value.
Let(x, Then(_)) == CHOOSE y \in {Then(v) : v \in {x}} : TRUE

\* Binding::resolve on a binding of the widget.
Resolved(w, id, key, bnd) ==
    Let(Binding_resolve(w, bnd), LAMBDA c :
        [w |-> Note(c.w, id, "resolve", key, bnd.ref, c.r.kind = "Ok"), r |-> c.r])

\* Mutant: a `visible` that does not resolve hides the widget.
Visible_checkOrHide(w, desc) ==
    IF desc.visible = NoBinding THEN [w |-> w, hidden |-> FALSE]
    ELSE Let(Resolved(w, desc.id, "visible", desc.visible), LAMBDA c :
             [w |-> c.w, hidden |-> IF c.r.kind = "Ok" THEN c.r.val.val = 0 ELSE TRUE])

\* if let Some(visible) = &self.visible {
\*     if let Ok(visible) = visible.resolve(data) { if !visible { return; } } }
Visible_check(w, desc) ==
    IF desc.visible = NoBinding THEN [w |-> w, hidden |-> FALSE]
    ELSE Let(Resolved(w, desc.id, "visible", desc.visible), LAMBDA c :
             [w |-> c.w, hidden |-> c.r.kind = "Ok" /\ c.r.val.val = 0])

\* RichText::resolve: the text, or the empty text if it does not resolve.
RichText_resolve(w, desc) == Resolved(w, desc.id, "text", desc.text).w

\* One arm of the loop over the properties: a property holding a binding is
\* attached if the binding resolves, any other property is attached as it is.
Prop_attach(w, id, p) ==
    IF p.bnd = NoBinding THEN Note(w, id, "prop", p.key, 0, TRUE)
    ELSE Let(Resolved(w, id, p.key, p.bnd), LAMBDA c :
             IF c.r.kind = "Ok" THEN Note(c.w, id, "prop", p.key, p.bnd.ref, TRUE) ELSE c.w)

RECURSIVE Props_attach(_, _, _, _)
Props_attach(w, id, props, k) ==
    IF k > Len(props) THEN w
    ELSE Let(Prop_attach(w, id, props[k]), LAMBDA v : Props_attach(v, id, props, k + 1))

\* One arm of Response::process on the response of the widget.
Response_arm(w, id, p, events) ==
    IF w.panic THEN w
    ELSE Let(BindingRef_resolve_mut(w, p.b), LAMBDA c :
         Let(Note(c.w, id, "resolve", p.ev, p.b, c.r.kind = "Ok"), LAMBDA n :
             IF c.r.kind = "Panic" THEN [n EXCEPT !.panic = TRUE]
             ELSE IF c.r.kind = "Ok" /\ p.ev \in events
                  THEN Note(Trigger_trigger(n, c.r.field), id, "trigger", p.ev, p.b, TRUE)
                  ELSE n))

RECURSIVE Response_arms(_, _, _, _, _)
Response_arms(w, id, props, k, events) ==
    IF k > Len(props) THEN w
    ELSE Let(Response_arm(w, id, props[k], events), LAMBDA v :
             Response_arms(v, id, props, k + 1, events))

\* ui.add(widget), and Response::process on what it returns.
Ui_add(w, desc, events) ==
    Let(Note(w, desc.id, "add", "", 0, TRUE), LAMBDA v :
        Response_arms(v, desc.id, desc.response, 1, events))

Button_show(w, desc, events) ==
    Let(Visible_check(Note(w, desc.id, "show", "", 0, TRUE), desc), LAMBDA v :
        IF v.hidden THEN v.w
        ELSE Let(RichText_resolve(v.w, desc), LAMBDA t :
             Let(Props_attach(t, desc.id, desc.props, 1), LAMBDA b :
                 Ui_add(b, desc, events))))

Label_show(w, desc, events) ==
    Let(Visible_check(Note(w, desc.id, "show", "", 0, TRUE), desc), LAMBDA v :
        IF v.hidden THEN v.w
        ELSE Let(RichText_resolve(v.w, desc), LAMBDA t :
             Let(Props_attach(t, desc.id, desc.props, 1), LAMBDA l :
                 Ui_add(l, desc, events))))

Separator_show(w, desc, events) ==
    Let(Visible_check(Note(w, desc.id, "show", "", 0, TRUE), desc), LAMBDA v :
        IF v.hidden THEN v.w
        ELSE Let(Props_attach(v.w, desc.id, desc.props, 1), LAMBDA sep :
                 Ui_add(sep, desc, events)))

\* Mutant: the content of a layout is shown after the siblings of the layout.
Content_showAfterSiblings(content, rest) == rest \o content

\* Content::show inside ui.with_layout: the content of the layout comes
\* before what is left of the enclosing content.
Content_show(content, rest) == content \o rest

\* Layout::show: the widgets to show after it.
Layout_show(w, desc, rest) ==
    Let(Visible_check(Note(w, desc.id, "show", "", 0, TRUE), desc), LAMBDA v :
        IF v.hidden THEN [w |-> v.w, todo |-> rest]
        ELSE [w |-> Note(v.w, desc.id, "with_layout", "", 0, TRUE),
              todo |-> Content_show(desc.content, rest)])

(***************************************************************************)
(* The render pass as a state machine                                      *)
(***************************************************************************)
ShowWorld ==
    [data |-> data, bindings |-> bindings, log |-> log, fails |-> fails,
     panic |-> FALSE, trace |-> trace]

InitShow ==
    /\ data \in ShowDataObjects
    /\ bindings = ShowBindingDecls
    /\ log = [i \in ShowBindingIds |-> 0]
    /\ fails = [i \in ShowBindingIds |-> 0]
    /\ calls = 0
    /\ last = NoCall
    /\ doc \in Documents
    /\ todo = <<>>
    /\ trace = <<>>
    /\ commands = <<>>
    /\ phase = "window"
    /\ ParseIdle
    /\ ThreadsIdle

\* The events egui reports for a widget: some of those its response names.
EventsOf(desc) == {desc.response[k].ev : k \in DOMAIN desc.response}

\* Window::show: the closure of egui's window.show shows the content.
WindowShow ==
    /\ phase = "window"
    /\ phase' = "content"
    /\ todo' = doc
    /\ UNCHANGED <<bindVars, parseVars, doc, trace, commands, threads>>

\* The world after the `show` of the widget in front, with what is then left.
Shown(w, rest) ==
    /\ data' = w.data
    /\ bindings' = w.bindings
    /\ log' = w.log
    /\ fails' = w.fails
    /\ trace' = w.trace
    /\ todo' = rest
    /\ phase' = IF w.panic THEN "panic" ELSE phase
    /\ UNCHANGED <<calls, last, parseVars, doc, commands, threads>>

Next_widget(kind) == phase = "content" /\ todo # <<>> /\ Head(todo).kind = kind

ShowButton ==
    /\ Next_widget("Button")
    /\ \E events \in SUBSET EventsOf(Head(todo)) :
          \E w \in {Button_show(ShowWorld, Head(todo), events)} : Shown(w, Tail(todo))

ShowLabel ==
    /\ Next_widget("Label")
    /\ \E events \in SUBSET EventsOf(Head(todo)) :
          \E w \in {Label_show(ShowWorld, Head(todo), events)} : Shown(w, Tail(todo))

ShowSeparator ==
    /\ Next_widget("Separator")
    /\ \E events \in SUBSET EventsOf(Head(todo)) :
          \E w \in {Separator_show(ShowWorld, Head(todo), events)} : Shown(w, Tail(todo))

ShowLayout ==
    /\ Next_widget("Layout")
    /\ \E c \in {Layout_show(ShowWorld, Head(todo), Tail(todo))} : Shown(c.w, c.todo)

\* The loop of Content::show over the content of the window has ended.
ContentShown ==
    /\ phase = "content"
    /\ todo = <<>>
    /\ phase' = "done"
    /\ UNCHANGED <<bindVars, parseVars, doc, todo, trace, commands, threads>>

NextShow ==
    \/ WindowShow
    \/ ShowButton
    \/ ShowLabel
    \/ ShowSeparator
    \/ ShowLayout
    \/ ContentShown

SpecShow == InitShow /\ [][NextShow]_vars

\* The pass is one call: once begun, nothing keeps it from its next step.
SpecShowLive == SpecShow /\ WF_vars(NextShow)

(***************************************************************************)
(* What a pass visits, shows and skips                                     *)
(***************************************************************************)
\* The ids of the widgets of a content, in document order, depth-first.
RECURSIVE Preorder(_)
Preorder(content) ==
    IF content = <<>> THEN <<>>
    ELSE <<Head(content).id>> \o Preorder(Head(content).content) \o Preorder(Tail(content))

RECURSIVE WidgetsOf(_)
WidgetsOf(content) ==
    IF content = <<>> THEN {}
    ELSE {Head(content)} \cup WidgetsOf(Head(content).content) \cup WidgetsOf(Tail(content))

Descendants(desc) == {d.id : d \in WidgetsOf(desc.content)}

RECURSIVE IsSubseq(_, _)
IsSubseq(a, b) ==
    IF a = <<>> THEN TRUE
    ELSE IF b = <<>> THEN FALSE
    ELSE IF Head(a) = Head(b) THEN IsSubseq(Tail(a), Tail(b))
    ELSE IsSubseq(a, Tail(b))

Did(id, what) == \E k \in DOMAIN trace : trace[k].w = id /\ trace[k].what = what

DidKey(id, what, key) ==
    \E k \in DOMAIN trace : trace[k].w = id /\ trace[k].what = what /\ trace[k].key = key

\* The widgets whose `show` was called, in the order of the calls.
Visits ==
    LET shows == SelectSeq(trace, LAMBDA e : e.what = "show")
    IN  [k \in DOMAIN shows |-> shows[k].w]

\* The widget was put into the UI: ui.add, or ui.with_layout for a layout.
Added(desc) == Did(desc.id, IF desc.kind = "Layout" THEN "with_layout" ELSE "add")

\* The binding resolves against the data object of the frame.
ResolvesOk(bnd) == Binding_resolve(ShowWorld, bnd).r.kind = "Ok"

\* The widget has a `visible` that resolves, and resolves to false.
VisibleIsFalse(desc) ==
    /\ desc.visible # NoBinding
    /\ ResolvesOk(desc.visible)
    /\ Binding_resolve(ShowWorld, desc.visible).r.val.val = 0

\* The widgets a whole pass calls `show` on: all but those inside a layout
\* that is skipped.
RECURSIVE Reached(_)
Reached(content) ==
    IF content = <<>> THEN <<>>
    ELSE <<Head(content).id>>
         \o (IF VisibleIsFalse(Head(content)) THEN <<>> ELSE Reached(Head(content).content))
         \o Reached(Tail(content))

\* A failure touches its own property only: of a widget that was added,
\* every property was gone through and is attached unless its own binding
\* fails, and every response property was gone through, its trigger written
\* only if its own binding resolves.
Contained(desc) ==
    /\ \A k \in DOMAIN desc.props :
          LET p == desc.props[k] IN
          /\ p.bnd # NoBinding => DidKey(desc.id, "resolve", p.key)
          /\ DidKey(desc.id, "prop", p.key) = (p.bnd = NoBinding \/ ResolvesOk(p.bnd))
    /\ \A k \in DOMAIN desc.response :
          LET r == desc.response[k] IN
          /\ DidKey(desc.id, "resolve", r.ev)
          /\ DidKey(desc.id, "trigger", r.ev) =>
                /\ ResolveRefCheck(bindings[r.b], data).kind = "Ok"
                /\ data.fields[bindings[r.b].name].val = 1

C25_Safe ==
    phase # "idle" =>
        /\ phase # "panic"
        /\ IsSubseq(Visits, Preorder(doc))
        /\ \A desc \in WidgetsOf(doc) : (desc.kind # "Layout" /\ Added(desc)) => Contained(desc)
        /\ phase = "done" => Visits = Reached(doc)

C26_SkippedIffFalse ==
    \A desc \in WidgetsOf(doc) :
        Did(desc.id, "show") =>
            /\ Added(desc) = ~VisibleIsFalse(desc)
            /\ VisibleIsFalse(desc) =>
                  \A k \in DOMAIN trace : trace[k].w \notin Descendants(desc)

\* A finished pass that skipped the layout on `visible = @flag`: nothing of
\* its label and separator was touched, and the label after it was shown.
C26_Witness ==
    /\ phase = "done"
    /\ doc = Document(NoBinding, Binding_Ref(5), Binding_Ref(7))
    /\ data.isStruct
    /\ data.fields["flag"] = [ty |-> "bool", val |-> 0]
    /\ Did(2, "show")
    /\ ~Did(2, "with_layout")
    /\ fails[6] = 0
    /\ fails[7] = 0
    /\ Did(1, "add")
    /\ Did(5, "add")

(***************************************************************************)
(* EguiWidgetBuilder (src/loader.rs)                                       *)
(*                                                                         *)
(* The host registers commands under the ids of named widgets, then `show` *)
(* goes through the content with show_content; every button, label and     *)
(* separator goes through display_widget, which takes what is registered   *)
(* under the id of the widget out of the command.                          *)
(***************************************************************************)
MaxRegs == 3

\* The names the label type of the host accepts, and one it does not.
LabelNames == {"a", "b"}

DeclaredNames == LabelNames \cup {"zz"}

WidgetTypes == {"Button", "Label"}

\* Name after assign_ids: the declared string, and the id of the label it
\* parses as; a string that is no label is logged and leaves the id None.
Name_assign_id(str) == [str |-> str, id |-> IF str \in LabelNames THEN <<str>> ELSE <<>>]

Unnamed == <<>>
Named(str) == <<Name_assign_id(str)>>

NamedWidget(id, kind, name, content) ==
    [id |-> id, kind |-> kind, name |-> name, content |-> content]

\* window = { title = "t"
\*   button = { name = n1 text = "b" }
\*   layout = { label = { name = a text = "l" } separator = { } }
\*   label = { name = n3 text = "end" } }
NamedDocument(n1, n3) ==
    << NamedWidget(1, "Button", n1, <<>>),
       NamedWidget(2, "Layout", Unnamed,
                   << NamedWidget(3, "Label", Named("a"), <<>>),
                      NamedWidget(4, "Separator", Unnamed, <<>>) >>),
       NamedWidget(5, "Label", n3, <<>>) >>

NamedDocuments ==
    {NamedDocument(n1, n3) :
        n1 \in {Unnamed, Named("a"), Named("b"), Named("zz")},
        n3 \in {Unnamed, Named("a"), Named("zz")}}

\* WidgetCommand::default()
WidgetCommand_default == [widget |-> <<>>, map |-> <<>>, response |-> <<>>]

\* commands.entry(id).or_default() with one slot of the command set.
Commands_entry(cmds, id, slot, reg) ==
    [i \in DOMAIN cmds \cup {id} |->
        IF i = id
        THEN [(IF id \in DOMAIN cmds THEN cmds[id] ELSE WidgetCommand_default)
                 EXCEPT ![slot] = <<reg>>]
        ELSE cmds[i]]

\* The builder while it shows: the commands, what was done, and a panic.
Builder == [commands |-> commands, trace |-> trace, panic |-> FALSE]

\* get_command_for_widget_with_id: the key of the command of the widget, if
\* it has a name and a command is registered under its id.  The id of the
\* name is unwrapped.
get_command_for_widget_with_id(cmds, name) ==
    IF name = <<>> THEN [kind |-> "Ok", key |-> <<>>]
    ELSE IF name[1].id = <<>> THEN [kind |-> "Panic", key |-> <<>>]
    ELSE IF name[1].id[1] \in DOMAIN cmds THEN [kind |-> "Ok", key |-> name[1].id]
    ELSE [kind |-> "Ok", key |-> <<>>]

\* Option::take on one slot of the command under the key.
Slot_take(b, key, slot) == [b EXCEPT !.commands[key][slot] = <<>>]

\* get_default_widget_with_id and unwrap_or_else(default): the registered
\* widget is taken; it is used if it is a W, else the default is built.
Widget_init(b, desc, key, W) ==
    IF key = <<>> \/ b.commands[key[1]].widget = <<>>
    THEN Note(b, desc.id, "default", "", 0, TRUE)
    ELSE Let(b.commands[key[1]].widget[1], LAMBDA reg :
             IF reg.ty = W
             THEN Note(Slot_take(b, key[1], "widget"), desc.id, "init", reg.ty, reg.n, TRUE)
             ELSE Note(Note(Slot_take(b, key[1], "widget"),
                            desc.id, "mismatch", reg.ty, reg.n, FALSE),
                       desc.id, "default", "", 0, TRUE))

\* command.map.take(): the function is run if it is one over W.
Widget_map(b, desc, key, W) ==
    IF key = <<>> \/ b.commands[key[1]].map = <<>> THEN b
    ELSE Let(b.commands[key[1]].map[1], LAMBDA reg :
             IF reg.ty = W
             THEN Note(Slot_take(b, key[1], "map"), desc.id, "after_init", reg.ty, reg.n, TRUE)
             ELSE Note(Slot_take(b, key[1], "map"), desc.id, "mismatch", reg.ty, reg.n, FALSE))

\* command.response.take(): the handler gets the response of ui.add.
Widget_response(b, desc, key) ==
    IF key = <<>> \/ b.commands[key[1]].response = <<>> THEN b
    ELSE Let(b.commands[key[1]].response[1], LAMBDA reg :
             Note(Slot_take(b, key[1], "response"), desc.id, "response", reg.ty, reg.n, TRUE))

display_widget(b, desc, W) ==
    Let(Note(b, desc.id, "display", "", 0, TRUE), LAMBDA b0 :
    Let(get_command_for_widget_with_id(b0.commands, desc.name), LAMBDA command :
        IF command.kind = "Panic" THEN [b0 EXCEPT !.panic = TRUE]
        ELSE Let(Widget_init(b0, desc, command.key, W), LAMBDA b1 :
             Let(Note(b1, desc.id, "props", "", 0, TRUE), LAMBDA b2 :
             Let(Widget_map(b2, desc, command.key, W), LAMBDA b3 :
             Let(Note(b3, desc.id, "add", "", 0, TRUE), LAMBDA b4 :
                 Widget_response(b4, desc, command.key)))))))

(***************************************************************************)
(* The builder as a state machine                                          *)
(***************************************************************************)
InitBuild ==
    /\ BindIdle
    /\ ParseIdle
    /\ ThreadsIdle
    /\ doc \in NamedDocuments
    /\ todo = <<>>
    /\ trace = <<>>
    /\ commands = <<>>
    /\ phase = "prepare"

\* One registration: the slot of the command under the id is set, whatever
\* it held, and the call is put on record.
Register(op, id, slot, ty) ==
    /\ phase = "prepare"
    /\ calls < MaxRegs
    /\ calls' = calls + 1
    /\ commands' = Commands_entry(commands, id, slot, [n |-> calls + 1, ty |-> ty])
    /\ trace' = Append(trace, Step(0, op, id, calls + 1, TRUE))
    /\ UNCHANGED <<data, bindings, log, fails, last, parseVars, doc, todo, phase, threads>>

InitWith(id, ty) == Register("init_with", id, "widget", ty)

AfterInit(id, ty) == Register("after_init", id, "map", ty)

OnResponse(id) == Register("on_response", id, "response", "")

\* EguiWidgetBuilder::show: the closure of egui's window.show goes through
\* the content of the window.
BuilderShow ==
    /\ phase = "prepare"
    /\ phase' = "content"
    /\ todo' = doc
    /\ UNCHANGED <<bindVars, parseVars, doc, trace, commands, threads>>

Displayed(b, rest) ==
    /\ commands' = b.commands
    /\ trace' = b.trace
    /\ todo' = rest
    /\ phase' = IF b.panic THEN "panic" ELSE phase
    /\ UNCHANGED <<bindVars, parseVars, doc, threads>>

DisplayButton ==
    /\ Next_widget("Button")
    /\ \E b \in {display_widget(Builder, Head(todo), "Button")} : Displayed(b, Tail(todo))

DisplayLabel ==
    /\ Next_widget("Label")
    /\ \E b \in {display_widget(Builder, Head(todo), "Label")} : Displayed(b, Tail(todo))

DisplaySeparator ==
    /\ Next_widget("Separator")
    /\ \E b \in {display_widget(Builder, Head(todo), "Separator")} : Displayed(b, Tail(todo))

\* show_content on a layout: its content, inside ui.with_layout.
DisplayLayout ==
    /\ Next_widget("Layout")
    /\ Displayed(Builder, Head(todo).content \o Tail(todo))

BuilderShown ==
    /\ phase = "content"
    /\ todo = <<>>
    /\ phase' = "done"
    /\ UNCHANGED <<bindVars, parseVars, doc, todo, trace, commands, threads>>

NextBuild ==
    \/ \E id \in LabelNames, ty \in WidgetTypes : InitWith(id, ty)
    \/ \E id \in LabelNames, ty \in WidgetTypes : AfterInit(id, ty)
    \/ \E id \in LabelNames : OnResponse(id)
    \/ BuilderShow
    \/ DisplayButton
    \/ DisplayLabel
    \/ DisplaySeparator
    \/ DisplayLayout
    \/ BuilderShown

SpecBuild == InitBuild /\ [][NextBuild]_vars

\* The widget has a name whose string is no label: it has no id.
Unidentified(desc) == desc.name # <<>> /\ desc.name[1].id = <<>>

\* What the pass did with the widget, in order.
StepsOf(id) == SelectSeq(trace, LAMBDA e : e.w = id)

WhatsOf(id) == [k \in DOMAIN StepsOf(id) |-> StepsOf(id)[k].what]

\* C24: a widget whose declared name fails to parse as the label type is in
\* the document, unidentified; rendering it neither panics nor applies a
\* registered command to it: it gets the default widget with its declared
\* properties.  A widget that declares no name is rendered the same way.
C24_UnidentifiedIsHarmless ==
    /\ phase # "panic"
    /\ \A desc \in WidgetsOf(doc) :
          (Did(desc.id, "display") /\ (Unidentified(desc) \/ desc.name = <<>>)) =>
              WhatsOf(desc.id) = <<"display", "default", "props", "add">>

\* The serial numbers of the registrations made by `op` under the id.
Regs(op, id) ==
    {trace[k].b : k \in {j \in DOMAIN trace :
                            trace[j].w = 0 /\ trace[j].what = op /\ trace[j].key = id}}

\* The steps of the pass that took the registration out of its slot.
Consumptions(n) == {k \in DOMAIN trace : trace[k].w # 0 /\ trace[k].b = n}

\* The registration with that serial number.
RegStep(n) == trace[CHOOSE k \in DOMAIN trace : trace[k].w = 0 /\ trace[k].b = n]

\* The widgets that carry the id.
Carriers(id) == {d \in WidgetsOf(doc) : d.name # <<>> /\ d.name[1].id = <<id>>}

PositionOf(i) == CHOOSE k \in DOMAIN Preorder(doc) : Preorder(doc)[k] = i

\* The first widget in document order, depth-first, that carries the id.
IsFirstWith(i, id) ==
    \E d \in Carriers(id) :
        d.id = i /\ \A e \in Carriers(id) : PositionOf(d.id) <= PositionOf(e.id)

\* The widget has a command: it has an id, and something was registered
\* under it.
HasCommand(desc) ==
    /\ desc.name # <<>>
    /\ desc.name[1].id # <<>>
    /\ \E k \in DOMAIN trace : trace[k].w = 0 /\ trace[k].key = desc.name[1].id[1]

\* The steps of display_widget on one widget, a type mismatch left aside:
\* init or default, the declared properties, after_init, add, response.
InOrder(ws) ==
    /\ Len(ws) >= 4
    /\ ws[1] = "display"
    /\ ws[2] \in {"init", "default"}
    /\ ws[3] = "props"
    /\ \E k \in 4..Len(ws) : ws[k] = "add"
    /\ IsSubseq(SubSeq(ws, 4, Len(ws)), <<"after_init", "add", "response">>)

\* C30: within one show every registered init widget, after_init function
\* and response handler is taken at most once, by the first widget in
\* document order that carries its id; the steps on a widget come in the
\* order init-or-default, declared properties, after_init, add, response; a
\* later registration in a slot replaces the earlier one; and a widget with
\* no name or no registered command gets the default widget with its
\* declared properties only.
C30_ConsumedOnceInOrder ==
    /\ \A n \in 1..calls :
          /\ Cardinality(Consumptions(n)) <= 1
          /\ \A k \in Consumptions(n) :
                /\ IsFirstWith(trace[k].w, RegStep(n).key)
                /\ \A m \in Regs(RegStep(n).what, RegStep(n).key) : m <= n
    /\ \A desc \in WidgetsOf(doc) :
          Did(desc.id, "display") =>
              /\ InOrder(SelectSeq(WhatsOf(desc.id), LAMBDA x : x # "mismatch"))
              /\ ~HasCommand(desc) =>
                    WhatsOf(desc.id) = <<"display", "default", "props", "add">>

====
